---- MODULE Spec2Model ----
(***************************************************************************)
(* The auto-scrolling timeline of PeterJ34/HTL2026 (modular variant:       *)
(* TrackDuplicator.js, TimelineCore.js, Controls.js, bootstrap.js).        *)
(*                                                                         *)
(* Lengths and positions are counted in quarter pixels, the finest grain   *)
(* the program's arithmetic produces (BASE_SPEED is 0.75 px): 1 px = 4.    *)
(* The DOM's layout values (offsetTop, scrollHeight) are whole pixels, so  *)
(* they are multiples of 4 here.                                           *)
(***************************************************************************)
EXTENDS Integers, Sequences, FiniteSets, TLC

\* ---------------------------------------------------------------- constants
\* TimelineCore.BASE_SPEED = 0.75 px per frame
BASE_SPEED == 3
\* Controls.FAST_SPEED = 25 px per frame
FAST_SPEED == 100

\* ------------------------------------------------------------------- bounds
\* cards in the document before the scripts run
MaxCards == 2
\* cards the track may hold when a card is inserted dynamically
MaxTrack == 4
\* |posY| up to which a held arrow keeps being applied
MaxPos == 130
\* _animate callbacks that may be registered for one frame
MaxPending == 2
\* timers of one source that may be pending together
MaxTimers == 2
\* deferred position writes of link jumps that may be pending together
MaxWrites == 2
\* the most cards of a measured table (besides the four of the fixture)
MaxIndexCards == 3
\* the farthest position of the index mapping, in quarter pixels
MaxDist == 26

\* The identifiers of the cards, and the rendered height of each card (a
\* clone has the content, hence the height, of its original).
CardIds == {"a", "b", "c", "z", "w"}

\* Card a is text only (10 px); card b holds an image and grows from 15 px to
\* 20 px once the image has loaded; card c is 20 px; card z is empty and has
\* no height; card w is 420 px, a track of it alone has halfTrackHeight 420.
CardHeight(id, ld) ==
    IF id = "a" THEN 4 * 10
    ELSE IF id = "b" THEN (IF ld THEN 4 * 20 ELSE 4 * 15)
    ELSE IF id = "z" THEN 0
    ELSE IF id = "w" THEN 4 * 420
    ELSE 4 * 20

VARIABLES
    track,            \* the ids of the .card children of the track, in document order
    loaded,           \* whether the images of the cards have loaded
    originalCount,    \* TimelineCore.originalCount
    offsets,          \* TimelineCore.offsets
    halfTrackHeight,  \* TimelineCore.halfTrackHeight
    posY,             \* TimelineCore.posY
    autoScroll,       \* TimelineCore.autoScroll
    running,          \* TimelineCore._running
    transform,        \* the translateY written to track.style.transform
    pendingAnimate,   \* _animate callbacks registered with requestAnimationFrame
    arrowSpeed,       \* Controls.arrowSpeed
    frameLeft,        \* _animate callbacks still to run in the frame in progress
    lastOp,           \* the operation that produced this state
    arg,              \* the argument of the last call
    ret,              \* the value the last query returned
    hist,             \* history: of a dynamic edit ("edited", "recomputed"), or of
                      \* the user's last action when it scheduled a deferred write
                      \* (frames leave the note of a pausing click in place)
    userPaused,       \* master.js: userPaused
    timers,           \* per source, the callbacks scheduled and not yet run or cancelled
    posWrites,        \* master.js: the positions the pending link-jump timers will assign
    value,            \* the number the last fractional mapping returned, as
                      \* <<numerator, denominator>>; a denominator of 0 is NaN
    page              \* the page: the script it includes, whether #autoTimelineWrap
                      \* and #autoTimelineTrack exist, and what the script's
                      \* DOMContentLoaded handler has set up

vars == <<track, loaded, originalCount, offsets, halfTrackHeight, posY, autoScroll,
          running, transform, pendingAnimate, arrowSpeed, frameLeft, lastOp,
          arg, ret, hist, userPaused, timers, posWrites, value, page>>

engineVars == <<originalCount, offsets, halfTrackHeight, posY, autoScroll,
                running, transform, pendingAnimate>>

uiVars == <<userPaused, timers, posWrites>>

\* ------------------------------------------------------------ small helpers
Abs(x) == IF x < 0 THEN -x ELSE x

Min(x, y) == IF x < y THEN x ELSE y

Max(x, y) == IF x > y THEN x ELSE y

\* every sequence over S of length at most n
SeqsUpTo(S, n) == UNION {[1..k -> S] : k \in 0..n}

\* ------------------------------------------------------------------ timers
\* The sources of scheduled callbacks. Controls.js: the auto-resume timer
\* (_resumeTimer), the pause icon's feedback timer (_showPauseIconTemporarily)
\* and its fade timer (fadeTimer); SliderController.js: the tooltip's hide
\* timer; master.js: resumeTimer, the 300 ms settling timer and the
\* requestAnimationFrame callback of computeOffsets.
TimerSources ==
    {"resume", "iconFeedback", "iconFade", "sliderTooltip", "settle", "rafCompute"}

\* Of one source: how many callbacks are pending, and whether the one the
\* source's handle variable refers to is among them.
NoTimer == [pending |-> 0, held |-> FALSE]

\* clearTimeout(handle): cancels the timer the handle refers to, if pending
clearTimeout(t) ==
    IF t.held THEN [pending |-> t.pending - 1, held |-> FALSE] ELSE t

\* handle = setTimeout(...)
setTimeoutKept(t) == [pending |-> t.pending + 1, held |-> TRUE]

\* setTimeout(...) with the handle dropped
setTimeoutLoose(t) == [pending |-> t.pending + 1, held |-> t.held]

\* the oldest pending timer of the source fires (equal delays fire in the
\* order they were scheduled; the handle refers to the newest)
timerFires(t) == [pending |-> t.pending - 1, held |-> t.held /\ t.pending > 1]

\* --------------------------------------------------------- TrackDuplicator
\* the loop of isAlreadyDuplicated: compare all[i].id with all[i + half].id,
\* returning false at the first mismatch
RECURSIVE idsMatchFrom(_, _, _)
idsMatchFrom(all, half, i) ==
    IF i > half THEN TRUE
    ELSE IF all[i] # all[i + half] THEN FALSE
    ELSE idsMatchFrom(all, half, i + 1)

\* isAlreadyDuplicated without the test for an odd length
isAlreadyDuplicatedNoParity(all) ==
    IF Len(all) < 2 THEN FALSE
    ELSE idsMatchFrom(all, Len(all) \div 2, 1)

\* isAlreadyDuplicated with the length test off by one (<= 2 for < 2)
isAlreadyDuplicatedMinFour(all) ==
    IF Len(all) <= 2 THEN FALSE
    ELSE IF Len(all) % 2 # 0 THEN FALSE
    ELSE idsMatchFrom(all, Len(all) \div 2, 1)

\* isAlreadyDuplicated()
isAlreadyDuplicated(all) ==
    IF Len(all) < 2 THEN FALSE
    ELSE IF Len(all) % 2 # 0 THEN FALSE
    ELSE idsMatchFrom(all, Len(all) \div 2, 1)

\* duplicate without the check that makes it idempotent
duplicateAlways(all) == all \o all

\* the track after duplicate(): a clone of every card appended, ids kept
duplicate(all) ==
    IF Len(all) = 0 THEN all
    ELSE IF isAlreadyDuplicated(all) THEN all
    ELSE all \o all

\* originalCount that never halves
duplicatorOriginalCountFull(all) == Len(all)

\* TrackDuplicator.originalCount()
duplicatorOriginalCount(all) ==
    IF isAlreadyDuplicated(all) THEN Len(all) \div 2 ELSE Len(all)

\* ------------------------------------------------------------------ layout
\* The cards are blocks stacked top to bottom below the track's top padding
\* (6 px): a card's offsetTop is the padding and the sum of the heights of the
\* cards before it, the track's scrollHeight the sum of all heights.
PaddingTop == 4 * 6

RECURSIVE sumHeights(_, _)
sumHeights(all, ld) ==
    IF Len(all) = 0 THEN 0
    ELSE CardHeight(Head(all), ld) + sumHeights(Tail(all), ld)

offsetTop(all, ld, i) == PaddingTop + sumHeights(SubSeq(all, 1, i - 1), ld)

scrollHeight(all, ld) == sumHeights(all, ld)

\* Math.round(h / 2) of a whole number of pixels h (halves round up)
roundHalf(h) == 4 * (((h \div 4) + 1) \div 2)

\* ------------------------------------------------------------ TimelineCore
\* the count taken as it is, with no fallback for 0
firstCountNoFallback(all, oc) == oc

\* computeOffsetsNow(): `this.originalCount || all.length` cards are measured
firstCount(all, oc) == IF oc # 0 THEN oc ELSE Len(all)

\* the offsets taken as the cards' offsetTop, the first card's not subtracted
offsetsAfterAbsolute(all, ld, oc) ==
    IF Len(all) = 0 THEN << >>
    ELSE [i \in 1..Min(firstCount(all, oc), Len(all)) |-> offsetTop(all, ld, i)]

\* offsets = cards.map(c => c.offsetTop - firstTop), cards = all.slice(0, firstCount)
offsetsAfter(all, ld, oc) ==
    IF Len(all) = 0 THEN << >>
    ELSE [i \in 1..Min(firstCount(all, oc), Len(all)) |->
             offsetTop(all, ld, i) - offsetTop(all, ld, 1)]

\* computeOffsetsNow() resets originalCount to 0 on an empty track only
originalCountAfter(all, oc) == IF Len(all) = 0 THEN 0 ELSE oc

halfTrackHeightAfter(all, ld) == roundHalf(scrollHeight(all, ld))

\* an index taken modulo the length instead of clamped
clampIndexModulo(offs, idx) == (idx % Len(offs)) + 1

\* idx = Math.max(0, Math.min(offsets.length - 1, idx)), as a 1-based position
clampIndex(offs, idx) == Max(0, Min(Len(offs) - 1, idx)) + 1

\* while (half > 0 && val < -half) val += half
RECURSIVE wrapUp(_, _)
wrapUp(val, half) ==
    IF half > 0 /\ val < -half THEN wrapUp(val + half, half) ELSE val

\* while (half > 0 && val > 0) val -= half
RECURSIVE wrapDown(_, _)
wrapDown(val, half) ==
    IF half > 0 /\ val > 0 THEN wrapDown(val - half, half) ELSE val

\* posYForIndex(i)
posYForIndex(offs, i) ==
    IF Len(offs) = 0 THEN 0 ELSE -offs[clampIndex(offs, i)]

\* jumpTarget with the sign of the offset lost
jumpTargetNoNegation(offs, half, idx) ==
    wrapDown(wrapUp(offs[clampIndex(offs, idx)], half), half)

\* jumpTarget aiming at the card after idx
jumpTargetNextCard(offs, half, idx) ==
    wrapDown(wrapUp(-offs[clampIndex(offs, idx + 1)], half), half)

\* the value jumpToIndex(idx) assigns to posY (offsets non-empty)
jumpTarget(offs, half, idx) ==
    wrapDown(wrapUp(-offs[clampIndex(offs, idx)], half), half)

\* _animate(): the advance
animateAdvance(p, auto) == IF auto THEN p - BASE_SPEED ELSE p

\* the wrap that stops at the end of the first copy
animateWrapClamp(p, half) ==
    IF half > 0
    THEN (IF p <= -half THEN -half ELSE IF p > 0 THEN p - half ELSE p)
    ELSE p

\* the wrap with < for <= at the lower end
animateWrapStrict(p, half) ==
    IF half > 0
    THEN LET p1 == IF p < -half THEN p + half ELSE p
         IN  IF p1 > 0 THEN p1 - half ELSE p1
    ELSE p

\* _animate(): the wrap, one conditional step each way
animateWrap(p, half) ==
    IF half > 0
    THEN LET p1 == IF p <= -half THEN p + half ELSE p
         IN  IF p1 > 0 THEN p1 - half ELSE p1
    ELSE p

\* ------------------------------------------------------------------ states
\* the frames that are followed: those that leave the position within MaxPos
\* of 0, and those of a track that scrolls by itself inside its wrap interval
inReach ==
    \/ Abs(posY + arrowSpeed) <= MaxPos
    \/ arrowSpeed = 0 /\ -halfTrackHeight < posY /\ posY <= 0

\* the listeners of the script are registered: its events are delivered
listening(script) == page.listeners /\ page.script = script

\* a page with both elements on which the script's handler has got as far as
\* creating its engine, registering its listeners, exposing window.SBTL
pageSetUp(script, engine, listeners, exposed) ==
    [script |-> script, wrap |-> TRUE, track |-> TRUE, engine |-> engine,
     listeners |-> listeners, exposed |-> exposed, warned |-> FALSE]

TypeOK ==
    /\ track \in Seq(CardIds)
    /\ loaded \in BOOLEAN
    /\ originalCount \in Nat
    /\ offsets \in Seq(Int)
    /\ halfTrackHeight \in Nat
    /\ posY \in Int
    /\ autoScroll \in BOOLEAN
    /\ running \in BOOLEAN
    /\ transform \in Int
    /\ pendingAnimate \in 0..MaxPending
    /\ arrowSpeed \in {0, FAST_SPEED, -FAST_SPEED}
    /\ frameLeft \in 0..MaxPending
    /\ arg \in Int
    /\ ret \in Int
    /\ value \in Int \X Nat
    /\ page \in [script : {"bootstrap", "master"}, wrap : BOOLEAN, track : BOOLEAN,
                  engine : BOOLEAN, listeners : BOOLEAN, exposed : BOOLEAN,
                  warned : BOOLEAN]
    /\ hist \in {"none", "edited", "recomputed", "navClick", "wrapClick", "afterTick",
                "resized"}
    /\ userPaused \in BOOLEAN
    /\ timers \in [TimerSources -> [pending : 0..MaxTimers, held : BOOLEAN]]
    /\ posWrites \in Seq(Int)

\* controls.bind() -> _createPauseIcon() ends with scheduleFade()
timersAfterBind ==
    [s \in TimerSources |-> IF s = "iconFade" THEN setTimeoutKept(NoTimer) ELSE NoTimer]

\* new TrackDuplicator(track), new TimelineCore({wrap, track}),
\* new Controls({...}) on a document holding the cards of doc
Constructed(doc) ==
    /\ track = doc
    /\ loaded = FALSE
    /\ originalCount = 0
    /\ offsets = << >>
    /\ halfTrackHeight = 0
    /\ posY = 0
    /\ autoScroll = TRUE
    /\ running = FALSE
    /\ transform = 0
    /\ pendingAnimate = 0
    /\ arrowSpeed = 0
    /\ frameLeft = 0
    /\ lastOp = "init"
    /\ arg = 0
    /\ ret = 0
    /\ value = <<0, 1>>
    /\ hist = "none"
    /\ userPaused = FALSE
    /\ timers = [s \in TimerSources |-> NoTimer]
    /\ posWrites = << >>
    /\ page = pageSetUp("bootstrap", TRUE, FALSE, FALSE)

\* bootstrap steps 1 to 3: duplicate(), originalCount, computeOffsetsNow(),
\* controls.bind(); the engine is still Stopped
Bound(doc) ==
    /\ track = duplicate(doc)
    /\ loaded = FALSE
    /\ originalCount =
           originalCountAfter(duplicate(doc), duplicatorOriginalCount(duplicate(doc)))
    /\ offsets = offsetsAfter(duplicate(doc), FALSE, duplicatorOriginalCount(duplicate(doc)))
    /\ halfTrackHeight = halfTrackHeightAfter(duplicate(doc), FALSE)
    /\ posY = 0
    /\ autoScroll = TRUE
    /\ running = FALSE
    /\ transform = 0
    /\ pendingAnimate = 0
    /\ arrowSpeed = 0
    /\ frameLeft = 0
    /\ lastOp = "init"
    /\ arg = 0
    /\ ret = 0
    /\ value = <<0, 1>>
    /\ hist = "none"
    /\ userPaused = FALSE
    /\ timers = timersAfterBind
    /\ posWrites = << >>
    /\ page = pageSetUp("bootstrap", TRUE, TRUE, FALSE)

\* the whole bootstrap handler, core.start() included
Bootstrapped(doc) ==
    /\ track = duplicate(doc)
    /\ loaded = FALSE
    /\ originalCount =
           originalCountAfter(duplicate(doc), duplicatorOriginalCount(duplicate(doc)))
    /\ offsets = offsetsAfter(duplicate(doc), FALSE, duplicatorOriginalCount(duplicate(doc)))
    /\ halfTrackHeight = halfTrackHeightAfter(duplicate(doc), FALSE)
    /\ posY = 0
    /\ autoScroll = TRUE
    /\ running = TRUE
    /\ transform = 0
    /\ pendingAnimate = 1
    /\ arrowSpeed = 0
    /\ frameLeft = 0
    /\ lastOp = "init"
    /\ arg = 0
    /\ ret = 0
    /\ value = <<0, 1>>
    /\ hist = "none"
    /\ userPaused = FALSE
    /\ timers = timersAfterBind
    /\ posWrites = << >>
    /\ page = pageSetUp("bootstrap", TRUE, TRUE, TRUE)

\* the ids of the cards of the documents that are edited dynamically
EditIds == {"a", "b"}

Docs == SeqsUpTo(EditIds, MaxCards)

\* the documents the running timeline is exercised on: half-track heights of
\* 0, 10 px (below FAST_SPEED), 25 px (FAST_SPEED itself) and 35 px
TimelineDocs == {<< >>, <<"a">>, <<"a", "b">>, <<"b", "c">>}

\* an image finishes loading: the layout changes, nothing is recomputed
ImageLoad ==
    /\ frameLeft = 0
    /\ ~loaded
    /\ loaded' = TRUE
    /\ lastOp' = "imageLoad"
    /\ hist' = "none"
    /\ UNCHANGED <<page, track, engineVars, arrowSpeed, frameLeft, arg, ret, value, uiVars>>

\* ------------------------------------------------------------- DOM editing
\* the track is a duplicated one built from cards with distinct ids
properDouble(all) ==
    /\ isAlreadyDuplicated(all)
    /\ \A i, j \in 1..(Len(all) \div 2) : all[i] = all[j] => i = j

insertAt(all, i, id) == SubSeq(all, 1, i) \o <<id>> \o SubSeq(all, i + 1, Len(all))

removeAt(all, i) == SubSeq(all, 1, i - 1) \o SubSeq(all, i + 1, Len(all))

\* a card is added to the track (dynamic addition)
InsertCard ==
    \E i \in 0..Len(track), id \in EditIds :
        /\ frameLeft = 0
        /\ Len(track) < MaxTrack
        /\ track' = insertAt(track, i, id)
        /\ hist' = IF properDouble(track) /\ \A k \in 1..Len(track) : track[k] # id
                   THEN "edited" ELSE "none"
        /\ lastOp' = "insert"
        /\ UNCHANGED <<page, loaded, engineVars, arrowSpeed, frameLeft, arg, ret, value, uiVars>>

\* a card is removed from the track
RemoveCard ==
    \E i \in 1..Len(track) :
        /\ frameLeft = 0
        /\ track' = removeAt(track, i)
        /\ hist' = IF properDouble(track) THEN "edited" ELSE "none"
        /\ lastOp' = "remove"
        /\ UNCHANGED <<page, loaded, engineVars, arrowSpeed, frameLeft, arg, ret, value, uiVars>>

\* ----------------------------------------------------- TrackDuplicator calls
\* duplicator.duplicate(); arg records all.length, the cards the call found
DuplicateCall ==
    /\ frameLeft = 0
    /\ Len(duplicate(track)) <= 2 * MaxTrack
    /\ track' = duplicate(track)
    /\ arg' = Len(track)
    /\ lastOp' = "duplicate"
    /\ hist' = "none"
    /\ UNCHANGED <<page, loaded, engineVars, arrowSpeed, frameLeft, ret, value, uiVars>>

\* duplicator.originalCount(), its value left in ret
OriginalCountCall ==
    /\ frameLeft = 0
    /\ ret' = duplicatorOriginalCount(track)
    /\ lastOp' = "originalCount"
    /\ hist' = "none"
    /\ UNCHANGED <<page, track, loaded, engineVars, arrowSpeed, frameLeft, arg, value, uiVars>>

\* ------------------------------------------------------------ bootstrap.js
\* core.originalCount = duplicator.originalCount()
AssignOriginalCount ==
    /\ frameLeft = 0
    /\ originalCount' = duplicatorOriginalCount(track)
    /\ lastOp' = "assignOriginalCount"
    /\ hist' = "none"
    /\ UNCHANGED <<page, track, loaded, offsets, halfTrackHeight, posY, autoScroll, running,
                   transform, pendingAnimate, arrowSpeed, frameLeft, arg, ret, value, uiVars>>

\* core.computeOffsetsNow(), as the resize listener and the bootstrap call it
ComputeOffsetsNow ==
    /\ frameLeft = 0
    /\ offsets' = offsetsAfter(track, loaded, originalCount)
    /\ originalCount' = originalCountAfter(track, originalCount)
    /\ halfTrackHeight' = halfTrackHeightAfter(track, loaded)
    /\ lastOp' = "computeOffsetsNow"
    /\ hist' = IF halfTrackHeight' # halfTrackHeight /\ -halfTrackHeight < posY /\ posY <= 0
               THEN "resized" ELSE "none"
    /\ UNCHANGED <<page, track, loaded, posY, autoScroll, running, transform, pendingAnimate,
                   arrowSpeed, frameLeft, arg, ret, value, uiVars>>

\* window.SBTL.recompute: duplicate(), originalCount, computeOffsetsNow()
Recompute ==
    /\ frameLeft = 0
    /\ Len(duplicate(track)) <= 2 * MaxTrack
    /\ track' = duplicate(track)
    /\ offsets' = offsetsAfter(track', loaded, duplicatorOriginalCount(track'))
    /\ originalCount' = originalCountAfter(track', duplicatorOriginalCount(track'))
    /\ halfTrackHeight' = halfTrackHeightAfter(track', loaded)
    /\ lastOp' = "recompute"
    /\ hist' = IF hist = "edited" THEN "recomputed" ELSE "none"
    /\ UNCHANGED <<page, loaded, posY, autoScroll, running, transform, pendingAnimate,
                   arrowSpeed, frameLeft, arg, ret, value, uiVars>>

\* window.SBTL.recompute as bootstrap.js exposes it at the end of its handler
SbtlRecompute ==
    /\ page.script = "bootstrap"
    /\ page.exposed
    /\ Len(duplicate(track)) <= MaxTrack
    /\ Recompute

\* ------------------------------------------------------- TimelineCore calls
\* jumpToIndex with the transform left to the next tick
JumpToIndexDeferred ==
    \E idx \in -1..Len(offsets) :
        /\ frameLeft = 0
        /\ arg' = idx
        /\ lastOp' = "jumpToIndex"
        /\ hist' = IF lastOp = "animate" THEN "afterTick" ELSE "none"
        /\ IF Len(offsets) = 0
           THEN UNCHANGED posY
           ELSE posY' = jumpTarget(offsets, halfTrackHeight, idx)
        /\ UNCHANGED <<page, track, loaded, originalCount, offsets, halfTrackHeight, autoScroll,
                       running, transform, pendingAnimate, arrowSpeed, frameLeft, ret, value, uiVars>>

\* jumpToIndex adding the target to the current position instead of replacing it
JumpToIndexMerged ==
    \E idx \in -1..Len(offsets) :
        /\ frameLeft = 0
        /\ arg' = idx
        /\ lastOp' = "jumpToIndex"
        /\ hist' = IF lastOp = "animate" THEN "afterTick" ELSE "none"
        /\ IF Len(offsets) = 0
           THEN UNCHANGED <<posY, transform>>
           ELSE /\ posY' = posY + jumpTarget(offsets, halfTrackHeight, idx)
                /\ transform' = posY'
        /\ UNCHANGED <<page, track, loaded, originalCount, offsets, halfTrackHeight, autoScroll,
                       running, pendingAnimate, arrowSpeed, frameLeft, ret, value, uiVars>>

\* jumpToIndex(idx), for every idx from one below to one above the valid ones;
\* hist notes a jump that follows a tick of the engine at once
JumpToIndex ==
    \E idx \in -1..Len(offsets) :
        /\ frameLeft = 0
        /\ arg' = idx
        /\ lastOp' = "jumpToIndex"
        /\ hist' = IF lastOp = "animate" THEN "afterTick" ELSE "none"
        /\ IF Len(offsets) = 0
           THEN UNCHANGED <<posY, transform>>
           ELSE /\ posY' = jumpTarget(offsets, halfTrackHeight, idx)
                /\ transform' = posY'
        /\ UNCHANGED <<page, track, loaded, originalCount, offsets, halfTrackHeight, autoScroll,
                       running, pendingAnimate, arrowSpeed, frameLeft, ret, value, uiVars>>

\* the values setAutoScroll is called with: the two booleans, and a falsy
\* and a truthy value that are not booleans
JsArgs == <<"true", "false", "undefined", "'off'">>

\* !!v
toBoolean(v) == v \notin {"false", "undefined", "null", "0", "''", "NaN"}

\* setAutoScroll storing a flag that is true only for the argument true
SetAutoScrollStrict ==
    \E k \in 1..Len(JsArgs) :
        /\ frameLeft = 0
        /\ autoScroll' = (JsArgs[k] = "true")
        /\ arg' = k
        /\ lastOp' = "setAutoScroll"
        /\ hist' = "none"
        /\ UNCHANGED <<page, track, loaded, originalCount, offsets, halfTrackHeight, posY, running,
                       transform, pendingAnimate, arrowSpeed, frameLeft, ret, value, uiVars>>

\* setAutoScroll(enabled): this.autoScroll = !!enabled; arg records which of
\* JsArgs was passed
SetAutoScroll ==
    \E k \in 1..Len(JsArgs) :
        /\ frameLeft = 0
        /\ autoScroll' = toBoolean(JsArgs[k])
        /\ arg' = k
        /\ lastOp' = "setAutoScroll"
        /\ hist' = "none"
        /\ UNCHANGED <<page, track, loaded, originalCount, offsets, halfTrackHeight, posY, running,
                       transform, pendingAnimate, arrowSpeed, frameLeft, ret, value, uiVars>>

\* start() without its `if (this._running) return`
StartUnguarded ==
    /\ frameLeft = 0
    /\ pendingAnimate < MaxPending
    /\ running' = TRUE
    /\ offsets' = offsetsAfter(track, loaded, originalCount)
    /\ originalCount' = originalCountAfter(track, originalCount)
    /\ halfTrackHeight' = halfTrackHeightAfter(track, loaded)
    /\ transform' = posY
    /\ pendingAnimate' = pendingAnimate + 1
    /\ lastOp' = "start"
    /\ hist' = "none"
    /\ UNCHANGED <<page, track, loaded, posY, autoScroll, arrowSpeed, frameLeft, arg, ret, value, uiVars>>

\* start(): nothing when running; else computeOffsetsNow(), _applyTransform(),
\* requestAnimationFrame(_animate)
Start ==
    /\ frameLeft = 0
    /\ lastOp' = "start"
    /\ hist' = "none"
    /\ IF running
       THEN UNCHANGED <<originalCount, offsets, halfTrackHeight, running, transform,
                        pendingAnimate>>
       ELSE /\ pendingAnimate < MaxPending
            /\ running' = TRUE
            /\ offsets' = offsetsAfter(track, loaded, originalCount)
            /\ originalCount' = originalCountAfter(track, originalCount)
            /\ halfTrackHeight' = halfTrackHeightAfter(track, loaded)
            /\ transform' = posY
            /\ pendingAnimate' = pendingAnimate + 1
    /\ UNCHANGED <<page, track, loaded, posY, autoScroll, arrowSpeed, frameLeft, arg, ret, value, uiVars>>

\* stop()
Stop ==
    /\ frameLeft = 0
    /\ running' = FALSE
    /\ lastOp' = "stop"
    /\ hist' = "none"
    /\ UNCHANGED <<page, track, loaded, originalCount, offsets, halfTrackHeight, posY, autoScroll,
                   transform, pendingAnimate, arrowSpeed, frameLeft, arg, ret, value, uiVars>>

\* _animate() without its `if (this._running)`
AnimateUnguarded ==
    /\ frameLeft > 0
    /\ frameLeft' = frameLeft - 1
    /\ lastOp' = "animate"
    /\ hist' = (IF hist = "wrapClick" THEN hist ELSE "none")
    /\ posY' = animateWrap(animateAdvance(posY, autoScroll), halfTrackHeight)
    /\ transform' = posY'
    /\ pendingAnimate' = pendingAnimate + 1
    /\ UNCHANGED <<page, track, loaded, originalCount, offsets, halfTrackHeight, autoScroll, running,
                   arrowSpeed, arg, ret, value, uiVars>>

\* _animate() writing the transform before it advances and wraps
AnimateRenderFirst ==
    /\ frameLeft > 0
    /\ frameLeft' = frameLeft - 1
    /\ lastOp' = "animate"
    /\ hist' = (IF hist = "wrapClick" THEN hist ELSE "none")
    /\ IF running
       THEN /\ transform' = posY
            /\ posY' = animateWrap(animateAdvance(posY, autoScroll), halfTrackHeight)
            /\ pendingAnimate' = pendingAnimate + 1
       ELSE UNCHANGED <<posY, transform, pendingAnimate>>
    /\ UNCHANGED <<page, track, loaded, originalCount, offsets, halfTrackHeight, autoScroll, running,
                   arrowSpeed, arg, ret, value, uiVars>>

\* one _animate callback of the frame in progress: advance, wrap, write the
\* transform and register itself again, all only when running
Animate ==
    /\ frameLeft > 0
    /\ frameLeft' = frameLeft - 1
    /\ lastOp' = "animate"
    /\ hist' = (IF hist = "wrapClick" THEN hist ELSE "none")
    /\ IF running
       THEN /\ posY' = animateWrap(animateAdvance(posY, autoScroll), halfTrackHeight)
            /\ transform' = posY'
            /\ pendingAnimate' = pendingAnimate + 1
       ELSE UNCHANGED <<posY, transform, pendingAnimate>>
    /\ UNCHANGED <<page, track, loaded, originalCount, offsets, halfTrackHeight, autoScroll, running,
                   arrowSpeed, arg, ret, value, uiVars>>

\* ----------------------------------------------------------------- Controls
\* mousedown / touchstart on the up button (+FAST_SPEED) or the down button
ArrowPress ==
    \E s \in {FAST_SPEED, -FAST_SPEED} :
        /\ frameLeft = 0
        /\ arrowSpeed' = s
        /\ lastOp' = "arrowPress"
        /\ hist' = "none"
        /\ UNCHANGED <<page, track, loaded, engineVars, frameLeft, arg, ret, value, uiVars>>

\* a mouseup / touchend that the arrow's listener does not hear
ArrowReleaseUnheard ==
    /\ frameLeft = 0
    /\ lastOp' = "arrowRelease"
    /\ hist' = "none"
    /\ UNCHANGED <<page, track, loaded, engineVars, arrowSpeed, frameLeft, arg, ret, value, uiVars>>

\* mouseup / touchend anywhere in the document
ArrowRelease ==
    /\ frameLeft = 0
    /\ arrowSpeed' = 0
    /\ lastOp' = "arrowRelease"
    /\ hist' = "none"
    /\ UNCHANGED <<page, track, loaded, engineVars, frameLeft, arg, ret, value, uiVars>>

\* A frame begins: the callbacks registered with requestAnimationFrame run in
\* the order they were registered. Controls' tick, registered by bind() before
\* core.start(), runs first; the registered _animate callbacks follow.
ControlsTick ==
    /\ listening("bootstrap")
    /\ frameLeft = 0
    /\ inReach
    /\ IF arrowSpeed # 0
       THEN posY' = posY + arrowSpeed /\ autoScroll' = FALSE
       ELSE UNCHANGED <<posY, autoScroll>>
    /\ frameLeft' = pendingAnimate
    /\ pendingAnimate' = 0
    /\ lastOp' = "tick"
    /\ hist' = (IF hist \in {"wrapClick", "resized"} THEN hist ELSE "none")
    /\ UNCHANGED <<page, track, loaded, originalCount, offsets, halfTrackHeight, running, transform,
                   arrowSpeed, arg, ret, value, uiVars>>

\* ----------------------------------------------- Controls: click and timers
\* the wrap's click listener without its clearTimeout(this._resumeTimer)
WrapClickNoClear ==
    /\ listening("bootstrap")
    /\ frameLeft = 0
    /\ timers["iconFeedback"].pending < MaxTimers
    /\ timers["resume"].pending < MaxTimers
    /\ autoScroll' = ~autoScroll
    /\ timers' = [timers EXCEPT
                     !["iconFeedback"] = setTimeoutLoose(@),
                     !["resume"] = IF autoScroll THEN setTimeoutKept(@) ELSE @]
    /\ lastOp' = "wrapClick"
    /\ hist' = IF autoScroll THEN "wrapClick" ELSE "none"
    /\ UNCHANGED <<page, track, loaded, originalCount, offsets, halfTrackHeight, posY, running,
                   transform, pendingAnimate, arrowSpeed, frameLeft, arg, ret, value, userPaused,
                   posWrites>>

\* click on the wrap: wasPaused = !autoScroll; setAutoScroll(wasPaused);
\* _showPauseIconTemporarily(); clearTimeout(_resumeTimer); a pause schedules
\* the resume. hist is "wrapClick" from a pausing click until the user's
\* next action.
WrapClick ==
    /\ listening("bootstrap")
    /\ frameLeft = 0
    /\ timers["iconFeedback"].pending < MaxTimers
    /\ autoScroll' = ~autoScroll
    /\ timers' = [timers EXCEPT
                     !["iconFeedback"] = setTimeoutLoose(@),
                     !["resume"] = IF autoScroll THEN setTimeoutKept(clearTimeout(@))
                                   ELSE clearTimeout(@)]
    /\ lastOp' = "wrapClick"
    /\ hist' = IF autoScroll THEN "wrapClick" ELSE "none"
    /\ UNCHANGED <<page, track, loaded, originalCount, offsets, halfTrackHeight, posY, running,
                   transform, pendingAnimate, arrowSpeed, frameLeft, arg, ret, value, userPaused,
                   posWrites>>

\* a resume timer whose callback leaves the flag alone
ResumeFireIdle ==
    /\ frameLeft = 0
    /\ timers["resume"].pending > 0
    /\ timers' = [timers EXCEPT !["resume"] = timerFires(@)]
    /\ lastOp' = "resume"
    /\ UNCHANGED <<page, track, loaded, originalCount, offsets, halfTrackHeight, posY, autoScroll,
                   running, transform, pendingAnimate, arrowSpeed, frameLeft, arg, ret, value, hist,
                   userPaused, posWrites>>

\* the resume timer fires: setAutoScroll(true)
ResumeFire ==
    /\ frameLeft = 0
    /\ timers["resume"].pending > 0
    /\ timers' = [timers EXCEPT !["resume"] = timerFires(@)]
    /\ autoScroll' = TRUE
    /\ lastOp' = "resume"
    /\ UNCHANGED <<page, track, loaded, originalCount, offsets, halfTrackHeight, posY, running,
                   transform, pendingAnimate, arrowSpeed, frameLeft, arg, ret, value, hist,
                   userPaused, posWrites>>

\* a timer that only hides the pause icon or the tooltip fires (the opacity
\* it writes is not part of the state)
HideFire ==
    \E s \in {"iconFeedback", "iconFade", "sliderTooltip"} :
        /\ frameLeft = 0
        /\ timers[s].pending > 0
        /\ timers' = [timers EXCEPT ![s] = timerFires(@)]
        /\ lastOp' = "hide"
        /\ UNCHANGED <<page, track, loaded, engineVars, arrowSpeed, frameLeft, arg, ret, value, hist,
                       userPaused, posWrites>>

\* mouseenter on the wrap: the icon is shown, clearTimeout(fadeTimer)
WrapMouseEnter ==
    /\ frameLeft = 0
    /\ timers' = [timers EXCEPT !["iconFade"] = clearTimeout(@)]
    /\ lastOp' = "mouseenter"
    /\ UNCHANGED <<page, track, loaded, engineVars, arrowSpeed, frameLeft, arg, ret, value, hist,
                   userPaused, posWrites>>

\* mouseleave from the wrap: scheduleFade()
WrapMouseLeave ==
    /\ frameLeft = 0
    /\ timers' = [timers EXCEPT !["iconFade"] = setTimeoutKept(clearTimeout(@))]
    /\ lastOp' = "mouseleave"
    /\ UNCHANGED <<page, track, loaded, engineVars, arrowSpeed, frameLeft, arg, ret, value, hist,
                   userPaused, posWrites>>

\* ------------------------------------------------- slider and index mapping
\* the positions of the range input that are exercised, in percent
SliderValues == {0, 25, 50, 75, 100}

\* the slider's input handler: frac = (1 - val / 100) * (offsets.length - 1),
\* iL = floor(frac), iU = min(length - 1, iL + 1), t = frac - iL,
\* interp = offsets[iL] + (offsets[iU] - offsets[iL]) * t
sliderInterp(offs, val) ==
    LET num == (100 - val) * (Len(offs) - 1)
        iL == num \div 100
        iU == Min(Len(offs) - 1, iL + 1)
    IN  offs[iL + 1] + ((offs[iU + 1] - offs[iL + 1]) * (num % 100)) \div 100

\* the loop of nearestCardIndex: a later card replaces the nearest so far only
\* when strictly nearer (d < best); positions are 1-based, 0 is "none yet"
RECURSIVE nearestScan(_, _, _, _)
nearestScan(offs, dist, i, nearest) ==
    IF i > Len(offs) THEN nearest
    ELSE IF nearest = 0 \/ Abs(dist - offs[i]) < Abs(dist - offs[nearest])
         THEN nearestScan(offs, dist, i + 1, i)
         ELSE nearestScan(offs, dist, i + 1, nearest)

\* nearestCardIndex with the last of the nearest cards winning a tie
nearestCardIndexLastWins(offs, p) ==
    IF Len(offs) = 0 THEN 0
    ELSE LET near == {i \in 1..Len(offs) :
                         \A j \in 1..Len(offs) : Abs(Abs(p) - offs[i]) <= Abs(Abs(p) - offs[j])}
         IN  (CHOOSE i \in near : \A j \in near : j <= i) - 1

\* nearestCardIndex(), the 0-based index for position p
nearestCardIndex(offs, p) ==
    IF Len(offs) = 0 THEN 0 ELSE nearestScan(offs, Abs(p), 1, 0) - 1

\* SliderController._onInput (the user drags the thumb to val): the position
\* follows the thumb, is rendered at once, and auto-scroll is switched off
SliderInput ==
    \E val \in SliderValues :
        /\ listening("bootstrap")
        /\ frameLeft = 0
        /\ lastOp' = "sliderInput"
        /\ hist' = "none"
        /\ IF Len(offsets) = 0
           THEN UNCHANGED <<posY, transform, autoScroll>>
           ELSE /\ posY' = -sliderInterp(offsets, val)
                /\ transform' = posY'
                /\ autoScroll' = FALSE
        /\ UNCHANGED <<page, track, loaded, originalCount, offsets, halfTrackHeight, running,
                       pendingAnimate, arrowSpeed, frameLeft, arg, ret, value, uiVars>>

\* SliderController._onChange (release): jumpToIndex(nearestCardIndex()), and
\* a timer to hide the tooltip
SliderChange ==
    /\ listening("bootstrap")
    /\ frameLeft = 0
    /\ lastOp' = "sliderChange"
    /\ hist' = "none"
    /\ IF Len(offsets) = 0
       THEN UNCHANGED <<posY, transform, timers>>
       ELSE /\ timers["sliderTooltip"].pending < MaxTimers
            /\ posY' = jumpTarget(offsets, halfTrackHeight, nearestCardIndex(offsets, posY))
            /\ transform' = posY'
            /\ timers' = [timers EXCEPT !["sliderTooltip"] = setTimeoutLoose(@)]
    /\ UNCHANGED <<page, track, loaded, originalCount, offsets, halfTrackHeight, autoScroll,
                   running, pendingAnimate, arrowSpeed, frameLeft, arg, ret, value, userPaused,
                   posWrites>>

\* ------------------------------------------------------------------ master.js
\* safeDuplicateTrack() without the test that makes it bail
safeDuplicateTrackAlways(all) ==
    IF Len(all) = 0 THEN all ELSE all \o all

\* safeDuplicateTrack(): the track it leaves
safeDuplicateTrack(all) ==
    IF Len(all) = 0 THEN all
    ELSE IF Len(all) % 2 = 0 /\ idsMatchFrom(all, Len(all) \div 2, 1) THEN all
    ELSE all \o all

\* safeDuplicateTrack(): the originalCount it leaves (untouched on an empty track)
safeOriginalCount(all, oc) ==
    IF Len(all) = 0 THEN oc
    ELSE IF Len(all) % 2 = 0 /\ idsMatchFrom(all, Len(all) \div 2, 1) THEN Len(all) \div 2
    ELSE Len(all)

\* track.scrollHeight / 2, not rounded
halfExact(h) == h \div 2

\* master.js computeOffsetsNow(): halfTrackHeight
masterHalfAfter(all, ld) ==
    IF Len(all) = 0 THEN halfExact(scrollHeight(all, ld))
    ELSE roundHalf(scrollHeight(all, ld))

\* animate() with the base speed applied whatever the auto-scroll flag
masterAnimateAlwaysBase(p, auto, arrow, half) ==
    LET p1 == IF arrow = 0 THEN p - BASE_SPEED ELSE p
        p2 == IF arrow # 0 THEN p1 + arrow ELSE p1
        p3 == IF half > 0 /\ p2 <= -half THEN p2 + half ELSE p2
    IN  IF half > 0 /\ p3 > 0 THEN p3 - half ELSE p3

\* animate() with the base speed applied together with a held arrow's speed
masterAnimateBoth(p, auto, arrow, half) ==
    LET p1 == IF auto THEN p - BASE_SPEED ELSE p
        p2 == IF arrow # 0 THEN p1 + arrow ELSE p1
        p3 == IF half > 0 /\ p2 <= -half THEN p2 + half ELSE p2
    IN  IF half > 0 /\ p3 > 0 THEN p3 - half ELSE p3

\* animate(): base speed only with no arrow held, then the arrow's speed,
\* then the wrap, one conditional step each way
masterAnimate(p, auto, arrow, half) ==
    LET p1 == IF auto /\ arrow = 0 THEN p - BASE_SPEED ELSE p
        p2 == IF arrow # 0 THEN p1 + arrow ELSE p1
        p3 == IF half > 0 /\ p2 <= -half THEN p2 + half ELSE p2
    IN  IF half > 0 /\ p3 > 0 THEN p3 - half ELSE p3

\* Math.round(wrapRect.height * 0.05) for the wraps exercised: 0 px and 2 px
TopOffsets == {0, 4 * 2}

\* the sidebar link's target: -offsets[idx] + visibleTopOffset, normalised by
\* the two while loops (half > 0)
navTarget(offs, half, idx, vto) ==
    wrapDown(wrapUp(-offs[idx + 1] + vto, half), half)

\* the two while loops of the link's handler test desiredPos only: with
\* halfTrackHeight 0 the first never ends for a target below 0 (it adds 0),
\* the second never ends for a target above 0
navLoopsForever(offs, half, idx, vto) ==
    half = 0 /\ -offs[idx + 1] + vto # 0

\* no handler is stuck in a loop: the page's one thread is free
free == lastOp # "navClickLoop"

\* The state master.js's DOMContentLoaded handler leaves: the track duplicated,
\* computeOffsets() waiting for the first frame (offsets still empty), one
\* animate() already run from position 0 without a wrap period, the 300 ms
\* settling timer pending. The animation loop of master.js cannot be stopped.
\* Of the computeOffsets() callbacks, `held` marks the one the handler itself
\* registered, ahead of animate() in the frame's callback list.
MasterLoaded(doc) ==
    /\ track = safeDuplicateTrack(doc)
    /\ loaded = FALSE
    /\ originalCount = safeOriginalCount(doc, 0)
    /\ offsets = << >>
    /\ halfTrackHeight = 0
    /\ posY = masterAnimate(0, TRUE, 0, 0)
    /\ autoScroll = TRUE
    /\ running = TRUE
    /\ transform = masterAnimate(0, TRUE, 0, 0)
    /\ pendingAnimate = 1
    /\ arrowSpeed = 0
    /\ frameLeft = 0
    /\ lastOp = "init"
    /\ arg = 0
    /\ ret = 0
    /\ value = <<0, 1>>
    /\ hist = "none"
    /\ userPaused = FALSE
    /\ timers = [s \in TimerSources |->
                    IF s = "rafCompute" THEN setTimeoutKept(NoTimer)
                    ELSE IF s = "settle" THEN setTimeoutLoose(NoTimer)
                    ELSE NoTimer]
    /\ posWrites = << >>
    /\ page = pageSetUp("master", TRUE, TRUE, TRUE)

\* One frame of master.js: computeOffsetsNow() runs ahead of animate() when
\* the handler's own computeOffsets() is still waiting (held), animate() runs,
\* and the computeOffsets() callbacks that events registered run behind it.
\* The layout cannot change within the frame, so they measure the same values.
MasterFrame ==
    /\ listening("master")
    /\ free
    /\ inReach
    /\ LET early == timers["rafCompute"].held
           due == timers["rafCompute"].pending > 0
           half == IF early THEN masterHalfAfter(track, loaded) ELSE halfTrackHeight
       IN  /\ posY' = masterAnimate(posY, autoScroll, arrowSpeed, half)
           /\ transform' = posY'
           /\ IF due
              THEN /\ offsets' = offsetsAfter(track, loaded, originalCount)
                   /\ halfTrackHeight' = masterHalfAfter(track, loaded)
              ELSE UNCHANGED <<offsets, halfTrackHeight>>
    /\ timers' = [timers EXCEPT !["rafCompute"] = NoTimer]
    /\ lastOp' = "masterAnimate"
    /\ UNCHANGED <<page, track, loaded, originalCount, autoScroll, running, pendingAnimate,
                   arrowSpeed, frameLeft, arg, ret, value, hist, userPaused, posWrites>>

\* the 300 ms timer: computeOffsetsNow(), then halfTrackHeight = scrollHeight / 2
MasterSettle ==
    /\ free
    /\ timers["settle"].pending > 0
    /\ timers' = [timers EXCEPT !["settle"] = timerFires(@)]
    /\ offsets' = offsetsAfter(track, loaded, originalCount)
    /\ halfTrackHeight' = halfExact(scrollHeight(track, loaded))
    /\ lastOp' = "settle"
    /\ UNCHANGED <<page, track, loaded, originalCount, posY, autoScroll, running, transform,
                   pendingAnimate, arrowSpeed, frameLeft, arg, ret, value, hist, userPaused,
                   posWrites>>

\* an image of the track finishes loading: its load listener calls computeOffsets()
MasterImageLoad ==
    /\ free
    /\ ~loaded
    /\ timers["rafCompute"].pending < MaxTimers
    /\ loaded' = TRUE
    /\ timers' = [timers EXCEPT !["rafCompute"] = setTimeoutLoose(@)]
    /\ lastOp' = "imageLoad"
    /\ UNCHANGED <<page, track, engineVars, arrowSpeed, frameLeft, arg, ret, value, hist, userPaused,
                   posWrites>>

\* window.SBTL.recompute of master.js: safeDuplicateTrack(), computeOffsets()
MasterRecompute ==
    /\ page.script = "master"
    /\ page.exposed
    /\ free
    /\ timers["rafCompute"].pending < MaxTimers
    /\ Len(safeDuplicateTrack(track)) <= MaxTrack
    /\ track' = safeDuplicateTrack(track)
    /\ originalCount' = safeOriginalCount(track, originalCount)
    /\ timers' = [timers EXCEPT !["rafCompute"] = setTimeoutLoose(@)]
    /\ lastOp' = "masterRecompute"
    /\ hist' = IF hist = "edited" THEN "recomputed" ELSE "none"
    /\ UNCHANGED <<page, loaded, offsets, halfTrackHeight, posY, autoScroll, running, transform,
                   pendingAnimate, arrowSpeed, frameLeft, arg, ret, value, userPaused, posWrites>>

\* mouseenter on the wrap or an arrow button
MasterMouseEnter ==
    /\ free
    /\ autoScroll' = FALSE
    /\ lastOp' = "mouseenter"
    /\ UNCHANGED <<page, track, loaded, originalCount, offsets, halfTrackHeight, posY, running,
                   transform, pendingAnimate, arrowSpeed, frameLeft, arg, ret, value, hist, uiVars>>

\* mouseleave that resumes without looking at userPaused
MasterMouseLeaveAlways ==
    /\ free
    /\ autoScroll' = TRUE
    /\ lastOp' = "mouseleave"
    /\ UNCHANGED <<page, track, loaded, originalCount, offsets, halfTrackHeight, posY, running,
                   transform, pendingAnimate, arrowSpeed, frameLeft, arg, ret, value, hist, uiVars>>

\* mouseleave from the wrap or an arrow button
MasterMouseLeave ==
    /\ free
    /\ autoScroll' = IF ~userPaused THEN TRUE ELSE autoScroll
    /\ lastOp' = "mouseleave"
    /\ UNCHANGED <<page, track, loaded, originalCount, offsets, halfTrackHeight, posY, running,
                   transform, pendingAnimate, arrowSpeed, frameLeft, arg, ret, value, hist, uiVars>>

\* click on the wrap
MasterWrapClick ==
    /\ listening("master")
    /\ free
    /\ userPaused' = ~userPaused
    /\ autoScroll' = ~userPaused'
    /\ lastOp' = "wrapClick"
    /\ hist' = "none"
    /\ UNCHANGED <<page, track, loaded, originalCount, offsets, halfTrackHeight, posY, running,
                   transform, pendingAnimate, arrowSpeed, frameLeft, arg, ret, value, timers,
                   posWrites>>

\* the slider's input listener (the user drags the thumb to val)
MasterSliderInput ==
    \E val \in SliderValues :
        /\ listening("master")
        /\ free
        /\ lastOp' = "sliderInput"
        /\ hist' = "none"
        /\ IF Len(offsets) = 0
           THEN UNCHANGED <<posY, transform, autoScroll, userPaused>>
           ELSE /\ posY' = -sliderInterp(offsets, val)
                /\ transform' = posY'
                /\ autoScroll' = FALSE
                /\ userPaused' = TRUE
        /\ UNCHANGED <<page, track, loaded, originalCount, offsets, halfTrackHeight, running,
                       pendingAnimate, arrowSpeed, frameLeft, arg, ret, value, timers, posWrites>>

\* the slider's change listener (release): snap to the nearest card
MasterSliderChange ==
    /\ listening("master")
    /\ free
    /\ lastOp' = "sliderChange"
    /\ hist' = "none"
    /\ IF Len(offsets) = 0
       THEN UNCHANGED <<posY, transform>>
       ELSE /\ posY' = posYForIndex(offsets, nearestCardIndex(offsets, posY))
            /\ transform' = posY'
    /\ UNCHANGED <<page, track, loaded, originalCount, offsets, halfTrackHeight, autoScroll,
                   running, pendingAnimate, arrowSpeed, frameLeft, arg, ret, value, uiVars>>

\* click on a sidebar link whose card is the idx-th of the first half (a link
\* that matches no card returns at once). The track is moved at once, the
\* position follows 520 ms later; auto-scroll pauses and a resume is scheduled.
\* A click before the first frame has measured the offsets is left out.
MasterNavClick ==
    \E idx \in 0..(Len(offsets) - 1), vto \in TopOffsets :
        /\ free
        /\ Len(posWrites) < MaxWrites
        /\ IF navLoopsForever(offsets, halfTrackHeight, idx, vto)
           THEN /\ lastOp' = "navClickLoop"
                /\ UNCHANGED <<transform, posWrites, autoScroll, userPaused, timers, hist>>
           ELSE /\ transform' = navTarget(offsets, halfTrackHeight, idx, vto)
                /\ posWrites' = Append(posWrites, navTarget(offsets, halfTrackHeight, idx, vto))
                /\ autoScroll' = FALSE
                /\ userPaused' = TRUE
                /\ timers' = [timers EXCEPT !["resume"] = setTimeoutKept(clearTimeout(@))]
                /\ lastOp' = "navClick"
                /\ hist' = "navClick"
        /\ UNCHANGED <<page, track, loaded, originalCount, offsets, halfTrackHeight, posY, running,
                       pendingAnimate, arrowSpeed, frameLeft, arg, ret, value>>

\* the 520 ms timer of the oldest pending link click: posY = desiredPos
MasterPosWrite ==
    /\ free
    /\ Len(posWrites) > 0
    /\ posY' = Head(posWrites)
    /\ posWrites' = Tail(posWrites)
    /\ lastOp' = "posWrite"
    /\ UNCHANGED <<page, track, loaded, originalCount, offsets, halfTrackHeight, autoScroll,
                   running, transform, pendingAnimate, arrowSpeed, frameLeft, arg, ret, value,
                   hist, userPaused, timers>>

\* the resume timer of the last link click fires, 5000 ms after the click and
\* so after that click's 520 ms timer
MasterResume ==
    /\ free
    /\ timers["resume"].pending > 0
    /\ posWrites = << >>
    /\ timers' = [timers EXCEPT !["resume"] = timerFires(@)]
    /\ autoScroll' = TRUE
    /\ userPaused' = FALSE
    /\ lastOp' = "resume"
    /\ UNCHANGED <<page, track, loaded, originalCount, offsets, halfTrackHeight, posY, running,
                   transform, pendingAnimate, arrowSpeed, frameLeft, arg, ret, value, hist,
                   posWrites>>

\* ------------------------------------------------------- DOMContentLoaded
\* The page while it loads: no script has run, the cards (if the track
\* element exists) are the document's; the engine's fields have the values
\* their declarations give them.
Loading(doc, script, hasWrap, hasTrack) ==
    /\ track = (IF hasTrack THEN doc ELSE << >>)
    /\ loaded = FALSE
    /\ originalCount = 0
    /\ offsets = << >>
    /\ halfTrackHeight = 0
    /\ posY = 0
    /\ autoScroll = TRUE
    /\ running = FALSE
    /\ transform = 0
    /\ pendingAnimate = 0
    /\ arrowSpeed = 0
    /\ frameLeft = 0
    /\ lastOp = "page"
    /\ arg = 0
    /\ ret = 0
    /\ value = <<0, 1>>
    /\ hist = "none"
    /\ userPaused = FALSE
    /\ timers = [s \in TimerSources |-> NoTimer]
    /\ posWrites = << >>
    /\ page = [script |-> script, wrap |-> hasWrap, track |-> hasTrack, engine |-> FALSE,
               listeners |-> FALSE, exposed |-> FALSE, warned |-> FALSE]

\* the bootstrap's handler with a guard that looks at the wrap only
DomContentLoadedWrapOnly ==
    /\ page.script = "bootstrap"
    /\ ~page.engine
    /\ ~page.warned
    /\ IF ~page.wrap
       THEN /\ page' = [page EXCEPT !.warned = TRUE]
            /\ lastOp' = "refused"
            /\ UNCHANGED <<track, originalCount, offsets, halfTrackHeight, posY, transform,
                           running, pendingAnimate, timers>>
       ELSE /\ track' = duplicate(track)
            /\ originalCount' =
                   originalCountAfter(track', duplicatorOriginalCount(track'))
            /\ offsets' = offsetsAfter(track', loaded, duplicatorOriginalCount(track'))
            /\ halfTrackHeight' = halfTrackHeightAfter(track', loaded)
            /\ posY' = 0
            /\ transform' = 0
            /\ running' = TRUE
            /\ pendingAnimate' = 1
            /\ timers' = timersAfterBind
            /\ lastOp' = "bootstrap"
            /\ page' = [page EXCEPT !.engine = TRUE, !.listeners = TRUE, !.exposed = TRUE]
    /\ hist' = "none"
    /\ UNCHANGED <<loaded, autoScroll, arrowSpeed, frameLeft, arg, ret, value, userPaused,
                   posWrites>>

\* bootstrap.js, the DOMContentLoaded handler: without the wrap or the track it
\* warns and returns; else it duplicates the track, creates the engine and
\* measures, binds the controls and the slider, registers the resize
\* listener, starts the engine and exposes window.SBTL
DomContentLoaded ==
    /\ page.script = "bootstrap"
    /\ ~page.engine
    /\ ~page.warned
    /\ IF ~page.wrap \/ ~page.track
       THEN /\ page' = [page EXCEPT !.warned = TRUE]
            /\ lastOp' = "refused"
            /\ UNCHANGED <<track, originalCount, offsets, halfTrackHeight, posY, transform,
                           running, pendingAnimate, timers>>
       ELSE /\ track' = duplicate(track)
            /\ originalCount' =
                   originalCountAfter(track', duplicatorOriginalCount(track'))
            /\ offsets' = offsetsAfter(track', loaded, duplicatorOriginalCount(track'))
            /\ halfTrackHeight' = halfTrackHeightAfter(track', loaded)
            /\ posY' = 0
            /\ transform' = 0
            /\ running' = TRUE
            /\ pendingAnimate' = 1
            /\ timers' = timersAfterBind
            /\ lastOp' = "bootstrap"
            /\ page' = [page EXCEPT !.engine = TRUE, !.listeners = TRUE, !.exposed = TRUE]
    /\ hist' = "none"
    /\ UNCHANGED <<loaded, autoScroll, arrowSpeed, frameLeft, arg, ret, value, userPaused,
                   posWrites>>

\* master.js, the DOMContentLoaded handler: the same guard; else it leaves the
\* state described at MasterLoaded
MasterDomContentLoaded ==
    /\ page.script = "master"
    /\ ~page.engine
    /\ ~page.warned
    /\ IF ~page.wrap \/ ~page.track
       THEN /\ page' = [page EXCEPT !.warned = TRUE]
            /\ lastOp' = "refused"
            /\ UNCHANGED <<track, originalCount, offsets, halfTrackHeight, posY, transform,
                           running, pendingAnimate, timers>>
       ELSE /\ track' = safeDuplicateTrack(track)
            /\ originalCount' = safeOriginalCount(track, 0)
            /\ offsets' = << >>
            /\ halfTrackHeight' = 0
            /\ posY' = masterAnimate(0, TRUE, 0, 0)
            /\ transform' = masterAnimate(0, TRUE, 0, 0)
            /\ running' = TRUE
            /\ pendingAnimate' = 1
            /\ timers' = [s \in TimerSources |->
                              IF s = "rafCompute" THEN setTimeoutKept(NoTimer)
                          ELSE IF s = "settle" THEN setTimeoutLoose(NoTimer)
                          ELSE NoTimer]
            /\ lastOp' = "masterLoaded"
            /\ page' = [page EXCEPT !.engine = TRUE, !.listeners = TRUE, !.exposed = TRUE]
    /\ hist' = "none"
    /\ UNCHANGED <<loaded, autoScroll, arrowSpeed, frameLeft, arg, ret, value, userPaused,
                   posWrites>>

\* ---------------------------------------------------------- index mapping
\* master.js fractionalIndexForPosY: the loop over the pairs of neighbours, i
\* the 1-based place of a; a fraction is <<numerator, denominator>>, and the
\* quotient (dist - a) / (b - a) keeps its denominator b - a, 0 included
RECURSIVE fractionScan(_, _, _)
fractionScan(offs, dist, i) ==
    IF i > Len(offs) - 1 THEN <<0, 1>>
    ELSE IF dist >= offs[i] /\ dist <= offs[i + 1]
         THEN <<(i - 1) * (offs[i + 1] - offs[i]) + (dist - offs[i]), offs[i + 1] - offs[i]>>
         ELSE fractionScan(offs, dist, i + 1)

\* fractionalIndexForPosY returning the nearest whole index below
fractionalIndexFloor(offs, y) ==
    IF Len(offs) = 0 THEN <<0, 1>>
    ELSE IF Abs(y) <= offs[1] THEN <<0, 1>>
    ELSE IF Abs(y) >= offs[Len(offs)] THEN <<Len(offs) - 1, 1>>
    ELSE LET f == fractionScan(offs, Abs(y), 1)
         IN  IF f[2] = 0 THEN f ELSE <<f[1] \div f[2], 1>>

\* fractionalIndexForPosY with the two early returns testing < and > only
fractionalIndexStrictEnds(offs, y) ==
    IF Len(offs) = 0 THEN <<0, 1>>
    ELSE IF Abs(y) < offs[1] THEN <<0, 1>>
    ELSE IF Abs(y) > offs[Len(offs)] THEN <<Len(offs) - 1, 1>>
    ELSE fractionScan(offs, Abs(y), 1)

\* fractionalIndexForPosY(y)
fractionalIndexForPosY(offs, y) ==
    IF Len(offs) = 0 THEN <<0, 1>>
    ELSE IF Abs(y) <= offs[1] THEN <<0, 1>>
    ELSE IF Abs(y) >= offs[Len(offs)] THEN <<Len(offs) - 1, 1>>
    ELSE fractionScan(offs, Abs(y), 1)

\* the interpolation of the slider's input handler with the midpoint of the
\* two neighbours for every fraction between them
interpolateMidpoint(offs, f) ==
    IF f[2] = 0 \/ f[1] < 0 \/ f[1] \div f[2] > Len(offs) - 1 THEN <<0, 0>>
    ELSE LET iL == f[1] \div f[2]
             iU == Min(Len(offs) - 1, iL + 1)
         IN  IF f[1] % f[2] = 0 THEN <<offs[iL + 1], 1>>
             ELSE <<offs[iL + 1] + offs[iU + 1], 2>>

\* the interpolation of the slider's input handler for the fraction f:
\* iL = floor(frac), iU = min(length - 1, iL + 1), t = frac - iL,
\* interp = offsets[iL] + (offsets[iU] - offsets[iL]) * t; a fraction that is
\* NaN or indexes outside the table gives NaN
interpolate(offs, f) ==
    IF f[2] = 0 \/ f[1] < 0 \/ f[1] \div f[2] > Len(offs) - 1 THEN <<0, 0>>
    ELSE LET iL == f[1] \div f[2]
             iU == Min(Len(offs) - 1, iL + 1)
         IN  <<offs[iL + 1] * f[2] + (offs[iU + 1] - offs[iL + 1]) * (f[1] % f[2]), f[2]>>

\* 100 - (frac / (offsets.length - 1)) * 100, the value written to the slider
sliderValueFor(offs, f) ==
    <<100 * ((Len(offs) - 1) * f[2] - f[1]), (Len(offs) - 1) * f[2]>>

\* nearestCardIndex(), its value left in ret
NearestCardIndex ==
    /\ frameLeft = 0
    /\ ret' = nearestCardIndex(offsets, posY)
    /\ lastOp' = "nearestCardIndex"
    /\ hist' = "none"
    /\ UNCHANGED <<page, track, loaded, engineVars, arrowSpeed, frameLeft, arg, value, uiVars>>

\* posYForIndex(i) for every i from two below to two above the valid ones
PosYForIndex ==
    \E i \in -2..(Len(offsets) + 1) :
        /\ frameLeft = 0
        /\ arg' = i
        /\ ret' = posYForIndex(offsets, i)
        /\ lastOp' = "posYForIndex"
        /\ hist' = "none"
        /\ UNCHANGED <<page, track, loaded, engineVars, arrowSpeed, frameLeft, value, uiVars>>

\* fractionalIndexForPosY(posY), its value left in value
FractionalIndexForPosY ==
    /\ frameLeft = 0
    /\ value' = fractionalIndexForPosY(offsets, posY)
    /\ lastOp' = "fractionalIndex"
    /\ hist' = "none"
    /\ UNCHANGED <<page, track, loaded, engineVars, arrowSpeed, frameLeft, arg, ret, uiVars>>

\* the interpolation of the slider's input handler applied to the fraction
\* that fractionalIndexForPosY has just returned
Interpolate ==
    /\ frameLeft = 0
    /\ lastOp = "fractionalIndex"
    /\ Len(offsets) > 0
    /\ value' = interpolate(offsets, value)
    /\ lastOp' = "interpolate"
    /\ hist' = "none"
    /\ UNCHANGED <<page, track, loaded, engineVars, arrowSpeed, frameLeft, arg, ret, uiVars>>

\* master.js syncSliderLoop: the slider value for the live position
SyncSliderLoop ==
    /\ frameLeft = 0
    /\ value' = IF Len(offsets) = 0 THEN value
                ELSE sliderValueFor(offsets, fractionalIndexForPosY(offsets, posY))
    /\ lastOp' = "syncSlider"
    /\ hist' = "none"
    /\ UNCHANGED <<page, track, loaded, engineVars, arrowSpeed, frameLeft, arg, ret, uiVars>>

\* ------------------------------------------------------------ specifications
\* the engine with its controls, from the bootstrap's controls.bind() on
Init == \E doc \in TimelineDocs : Bound(doc)

Next ==
    \/ ImageLoad
    \/ ComputeOffsetsNow
    \/ Start
    \/ Stop
    \/ SetAutoScroll
    \/ ArrowPress
    \/ ArrowRelease
    \/ ControlsTick
    \/ Animate

Spec == Init /\ [][Next]_vars

\* the running timeline after the bootstrap: frames and the inputs that steer them
InitTicks == \E doc \in TimelineDocs : Bootstrapped(doc)

NextTicks ==
    \/ SetAutoScroll
    \/ ArrowPress
    \/ ArrowRelease
    \/ ControlsTick
    \/ Animate

SpecTicks == InitTicks /\ [][NextTicks]_vars

\* the duplicator and the on-demand recompute on a track that is edited
InitDup == \E doc \in Docs : Constructed(doc)

NextDup ==
    \/ DuplicateCall
    \/ OriginalCountCall
    \/ InsertCard
    \/ RemoveCard
    \/ Recompute

SpecDup == InitDup /\ [][NextDup]_vars

\* measuring and jumping, on any track and any originalCount the calls leave
NextJump ==
    \/ DuplicateCall
    \/ AssignOriginalCount
    \/ ComputeOffsetsNow
    \/ JumpToIndex

SpecJump == InitDup /\ [][NextJump]_vars

\* what is rendered: the engine, the arrows, jumps and the slider, from the
\* bootstrap's controls.bind() and slider.ensureExists() on
NextRender ==
    \/ Start
    \/ Stop
    \/ ArrowPress
    \/ ArrowRelease
    \/ ControlsTick
    \/ Animate
    \/ JumpToIndex
    \/ SliderInput
    \/ SliderChange
    \/ HideFire

\* the documents the handlers of the user interface are exercised on
UiDocs == {<<"a">>, <<"a", "b">>}

InitRender == \E doc \in UiDocs : Bound(doc)

SpecRender == InitRender /\ [][NextRender]_vars

\* the running timeline's click, hover and slider handlers and their timers
InitTimers == \E doc \in UiDocs : Bootstrapped(doc)

NextTimers ==
    \/ WrapClick
    \/ ResumeFire
    \/ HideFire
    \/ WrapMouseEnter
    \/ WrapMouseLeave
    \/ SliderInput
    \/ SliderChange
    \/ ControlsTick
    \/ Animate

SpecTimers == InitTimers /\ [][NextTimers]_vars

\* the same, with the browser's guarantees: a pending timer fires between two
\* frames, and a frame that has begun runs its callbacks to the end
SpecTimersFair ==
    InitTimers /\ [][NextTimers]_vars /\ SF_vars(ResumeFire) /\ WF_vars(Animate)

\* master.js, from the end of its DOMContentLoaded handler on
InitMaster == \E doc \in TimelineDocs : MasterLoaded(doc)

NextMaster ==
    \/ MasterFrame
    \/ MasterSettle
    \/ MasterImageLoad
    \/ MasterMouseEnter
    \/ MasterMouseLeave
    \/ MasterWrapClick
    \/ MasterSliderInput
    \/ MasterSliderChange
    \/ ArrowPress
    \/ ArrowRelease

SpecMaster == InitMaster /\ [][NextMaster]_vars

\* master.js with its sidebar links: jumps, their timers and the slider
NavDocs == {<<"a">>, <<"a", "b">>, <<"z">>}

InitNav == \E doc \in NavDocs : MasterLoaded(doc)

NextNav ==
    \/ MasterFrame
    \/ MasterSettle
    \/ MasterWrapClick
    \/ MasterSliderInput
    \/ MasterSliderChange
    \/ MasterNavClick
    \/ MasterPosWrite
    \/ MasterResume

SpecNav == InitNav /\ [][NextNav]_vars

\* the page from its load on, with either script, with and without the two
\* elements; events reach the listeners that were registered
BootDocs == {<<"a">>, <<"a", "b">>}

InitBoot ==
    \E doc \in BootDocs, script \in {"bootstrap", "master"}, w \in BOOLEAN, t \in BOOLEAN :
        Loading(doc, script, w, t)

NextBoot ==
    \/ DomContentLoaded
    \/ MasterDomContentLoaded
    \/ WrapClick
    \/ ResumeFire
    \/ HideFire
    \/ ControlsTick
    \/ Animate
    \/ MasterFrame
    \/ MasterSettle
    \/ MasterWrapClick

SpecBoot == InitBoot /\ [][NextBoot]_vars

\* the timeline left to scroll by itself, with no input, on a track whose
\* halfTrackHeight is 420 px, under either script
LapDoc == <<"w">>

InitLap == Bootstrapped(LapDoc) \/ MasterLoaded(LapDoc)

NextLap ==
    \/ ControlsTick
    \/ Animate
    \/ MasterFrame

SpecLap == InitLap /\ [][NextLap]_vars

\* frames keep being delivered
SpecLapFair ==
    InitLap /\ [][NextLap]_vars /\ WF_vars(ControlsTick) /\ WF_vars(Animate)
        /\ WF_vars(MasterFrame)

\* the index mapping on measured tables: the cards are given by their heights
\* (quarter pixels), among them cards of no height
CardHeights == {0, 4, 12}

\* 50, 90, 160 and 100 px: the cards behind the offsets 0, 50, 140, 300
FixtureHeights == <<4 * 50, 4 * 90, 4 * 160, 4 * 100>>

IndexTracks == SeqsUpTo(CardHeights, MaxIndexCards) \cup {FixtureHeights}

\* the positions: every quarter pixel up to MaxDist either side of 0, and the
\* -145 px of the fixture
IndexPositions == (-MaxDist..MaxDist) \cup {-(4 * 145)}

RECURSIVE sumSeq(_)
sumSeq(hs) == IF Len(hs) = 0 THEN 0 ELSE hs[1] + sumSeq(Tail(hs))

\* computeOffsetsNow() on cards of the heights hs: offsetTop - firstTop
topsOf(hs) == [i \in 1..Len(hs) |-> sumSeq(SubSeq(hs, 1, i - 1))]

\* the engine, stopped, with the offsets of the cards hs measured and the
\* position at p; the cards are not looked at again and are left out
Measured(hs, p) ==
    /\ track = << >>
    /\ loaded = TRUE
    /\ originalCount = Len(hs)
    /\ offsets = topsOf(hs)
    /\ halfTrackHeight = roundHalf(2 * sumSeq(hs))
    /\ posY = p
    /\ autoScroll = TRUE
    /\ running = FALSE
    /\ transform = p
    /\ pendingAnimate = 0
    /\ arrowSpeed = 0
    /\ frameLeft = 0
    /\ lastOp = "init"
    /\ arg = 0
    /\ ret = 0
    /\ value = <<0, 1>>
    /\ hist = "none"
    /\ userPaused = FALSE
    /\ timers = [s \in TimerSources |-> NoTimer]
    /\ posWrites = << >>
    /\ page = pageSetUp("bootstrap", TRUE, FALSE, FALSE)

InitIndex == \E hs \in IndexTracks, p \in IndexPositions : Measured(hs, p)

NextIndex ==
    \/ NearestCardIndex
    \/ PosYForIndex
    \/ JumpToIndex
    \/ FractionalIndexForPosY
    \/ Interpolate
    \/ SyncSliderLoop

SpecIndex == InitIndex /\ [][NextIndex]_vars

\* ------------------------------------------------------------------ claims
\* the position lies in the wrap interval (-halfTrackHeight, 0]
inWrapInterval == -halfTrackHeight < posY /\ posY <= 0

C2_JumpInWrapInterval ==
    (lastOp = "jumpToIndex" /\ Len(offsets) > 0 /\ halfTrackHeight > 0)
        => inWrapInterval

halvesMatch(all) ==
    /\ Len(all) > 0
    /\ Len(all) % 2 = 0
    /\ \A i \in 1..(Len(all) \div 2) : all[i] = all[i + (Len(all) \div 2)]

\* C4: duplicate is idempotent on a non-empty sequence (a second duplicate
\* leaves the track as the first left it) and the duplicated track's second
\* half has the ids of its first half in the same order.
C4_DuplicateIdempotent ==
    (lastOp = "duplicate" /\ Len(track) > 0) =>
        /\ duplicate(track) = track
        /\ isAlreadyDuplicated(track)
        /\ halvesMatch(track)

\* a track of two different cards, duplicated
C4_Witness ==
    /\ lastOp = "duplicate"
    /\ Len(track) = 4
    /\ track[1] # track[2]

\* C5: isAlreadyDuplicated is true exactly for the sequences of even,
\* non-zero length whose second half repeats the ids of the first.
C5_IsAlreadyDuplicatedIff ==
    isAlreadyDuplicated(track) <=> halvesMatch(track)

\* a duplicated track of two different cards
C5_Witness ==
    /\ Len(track) = 4
    /\ isAlreadyDuplicated(track)
    /\ track[1] # track[2]

\* C6: one card alone is never taken as duplicated; duplicate makes it a
\* pair, and every later duplicate leaves the pair as it is.
C6_SingleCard ==
    [][ /\ (Len(track) = 1 => ~isAlreadyDuplicated(track))
        /\ (lastOp' = "duplicate" /\ Len(track) = 1) => Len(track') = 2
        /\ (lastOp' = "duplicate" /\ Len(track) = 2 /\ track[1] = track[2])
               => track' = track ]_vars

\* duplicate was called on the pair of a doubled single card and left it
C6_Witness ==
    /\ lastOp = "duplicate"
    /\ arg = 2
    /\ Len(track) = 2
    /\ track[1] = track[2]

\* the ids that occur in the sequence
idsOf(all) == {all[i] : i \in 1..Len(all)}

\* C7: after a card is inserted into or removed from an already-duplicated
\* track and the recompute has run, originalCount is the number of unique
\* cards and the track is two copies of the unique sequence.
C7_RecomputeAfterEdit ==
    hist = "recomputed" =>
        /\ originalCount = Cardinality(idsOf(track))
        /\ Len(track) = 2 * Cardinality(idsOf(track))
        /\ halvesMatch(track)

\* C8: originalCount returns half the length of a duplicated track and the
\* whole length of any other (0 for the empty track), and leaves the track
\* as it is.
C8_OriginalCount ==
    [][ lastOp' = "originalCount" =>
            /\ ret' = IF halvesMatch(track) THEN Len(track) \div 2 ELSE Len(track)
            /\ track' = track ]_vars

\* originalCount was asked of a duplicated track of two cards
C8_Witness ==
    /\ lastOp = "originalCount"
    /\ Len(track) = 4
    /\ ret = 2

\* C9: the engine is Stopped at first; start() when Stopped makes it Running,
\* recomputes the offsets and writes the position to the render sink;
\* start() when Running and stop() when Stopped change nothing.
C9_StartStop ==
    /\ ~running
    /\ [][ /\ (lastOp' = "start" /\ ~running) =>
                  /\ running'
                  /\ offsets' = offsetsAfter(track, loaded, originalCount)
                  /\ halfTrackHeight' = halfTrackHeightAfter(track, loaded)
                  /\ transform' = posY
                  /\ posY' = posY
           /\ (lastOp' = "start" /\ running) => UNCHANGED engineVars
           /\ (lastOp' = "stop" /\ ~running) => UNCHANGED engineVars ]_vars

\* start() has measured a layout that changed after the offsets were computed
C9_Witness ==
    /\ lastOp = "start"
    /\ running
    /\ loaded
    /\ halfTrackHeight = halfTrackHeightAfter(track, TRUE)
    /\ halfTrackHeight # halfTrackHeightAfter(track, FALSE)

\* C10: while the engine is Stopped, an _animate callback changes neither
\* the position nor the rendered transform and registers no further tick.
C10_StoppedTickIdle ==
    [][ (lastOp' = "animate" /\ ~running) =>
            /\ posY' = posY
            /\ transform' = transform
            /\ pendingAnimate' = pendingAnimate ]_vars

\* the callback left over by stop() ran after a held arrow had moved the
\* position, with auto-scroll on: nothing was advanced or rendered
C10_Witness ==
    /\ lastOp = "animate"
    /\ ~running
    /\ halfTrackHeight > 0
    /\ transform # posY
    /\ pendingAnimate = 0

\* C11: while the engine is Stopped no frame callback changes the position,
\* neither by the auto-scroll advance nor by a held arrow's speed.
C11_StoppedFramesIdle ==
    [][ (~running /\ lastOp' \in {"tick", "animate"}) => posY' = posY ]_vars

\* the wrap step of a tick: one fold up when at or below -h, then one fold
\* down when above 0, only for h > 0
wrapOnce(p, h) ==
    IF h <= 0 THEN p
    ELSE IF p <= -h
         THEN (IF p + h > 0 THEN p ELSE p + h)
         ELSE (IF p > 0 THEN p - h ELSE p)

\* the wrap period a tick works with: master.js measures it first in the
\* frame that runs the page's initial computeOffsets()
tickHalf == IF timers["rafCompute"].held THEN halfTrackHeight' ELSE halfTrackHeight

\* a step that is one tick of the running animation loop
isTick == lastOp' \in {"animate", "masterAnimate"} /\ running

C14_AsStated ==
    [][ /\ (lastOp' = "animate" /\ running) =>
               /\ posY' = wrapOnce(IF autoScroll THEN posY - BASE_SPEED ELSE posY,
                                   halfTrackHeight)
               /\ transform' = posY'
        /\ transform' # transform =>
               lastOp' \in {"animate", "jumpToIndex", "sliderChange", "sliderInput"} ]_vars

\* C14, amended: as above, with start() among the writers of the rendered
\* translation.
C14_RenderOrder ==
    [][ /\ (lastOp' = "animate" /\ running) =>
               /\ posY' = wrapOnce(IF autoScroll THEN posY - BASE_SPEED ELSE posY,
                                   halfTrackHeight)
               /\ transform' = posY'
        /\ transform' # transform =>
               lastOp' \in {"animate", "jumpToIndex", "sliderChange", "sliderInput",
                            "start"} ]_vars

\* a tick has rendered a position that the held up arrow had pushed above 0
\* and the wrap folded back
C14_Witness ==
    /\ lastOp = "animate"
    /\ running
    /\ arrowSpeed = FAST_SPEED
    /\ halfTrackHeight >= FAST_SPEED
    /\ posY > -halfTrackHeight /\ posY <= FAST_SPEED - halfTrackHeight
    /\ transform = posY

\* C15: right after jumpToIndex returns on a non-empty offset table the
\* rendered translation is the new position, the engine Stopped or Running,
\* and no tick has run or been scheduled for it.
C15_JumpSynchronous ==
    [][ (lastOp' = "jumpToIndex" /\ Len(offsets) > 0) =>
            /\ transform' = posY'
            /\ running' = running
            /\ pendingAnimate' = pendingAnimate /\ frameLeft' = frameLeft ]_vars

\* a jump on the stopped engine moved the track at once
C15_Witness ==
    /\ lastOp = "jumpToIndex"
    /\ ~running
    /\ pendingAnimate = 0
    /\ posY < 0
    /\ transform = posY

\* C16: a jump that follows a tick's advance in the same frame leaves the
\* jump's value in the position and in the render sink; the value does not
\* depend on what the tick had advanced to.
C16_JumpWins ==
    [][ (lastOp = "animate" /\ lastOp' = "jumpToIndex" /\ Len(offsets) > 0) =>
            /\ posY' = wrapDown(wrapUp(-offsets[clampIndex(offsets, arg')],
                                       halfTrackHeight), halfTrackHeight)
            /\ transform' = posY' ]_vars

\* a tick had advanced the position by the base speed, the jump then put the
\* first card back on top
C16_Witness ==
    /\ lastOp = "jumpToIndex"
    /\ hist = "afterTick"
    /\ running /\ autoScroll
    /\ arg = 0
    /\ posY = 0
    /\ transform = 0

\* C17: the position and AutoScroll in effect are those the most recently run
\* user-interaction handler wrote: a deferred write that a handler scheduled
\* changes nothing once a later handler has run. (hist is "navClick" exactly
\* while the link click is the latest of the user's handlers.)
C17_RecencyWins ==
    [][ /\ (lastOp' = "posWrite" /\ hist # "navClick") => posY' = posY
        /\ (lastOp' = "resume" /\ hist # "navClick")
               => (autoScroll' = autoScroll /\ userPaused' = userPaused) ]_vars

\* C18: every mouseup / touchend on the document leaves the arrow speed 0;
\* with the arrow speed 0 a frame applies no manual movement, and only a new
\* press makes the speed nonzero again.
C18_ReleaseCancels ==
    [][ /\ lastOp' = "arrowRelease" => arrowSpeed' = 0
        /\ (lastOp' = "tick" /\ arrowSpeed = 0) =>
               (posY' = posY /\ autoScroll' = autoScroll)
        /\ (arrowSpeed = 0 /\ arrowSpeed' # 0) => lastOp' = "arrowPress" ]_vars

\* the down arrow was held for one frame of the stopped engine and released:
\* a later frame has left the position where the release found it
C18_Witness ==
    /\ lastOp = "tick"
    /\ arrowSpeed = 0
    /\ ~running
    /\ pendingAnimate = 0
    /\ posY = -FAST_SPEED

\* C19: at most one resume timer is pending at any time.
C19_OneResumeTimer == timers["resume"].pending <= 1

\* a click has paused the timeline and scheduled the resume while the icon's
\* timers of two recent clicks are still pending
C19_Witness ==
    /\ lastOp = "wrapClick"
    /\ ~autoScroll
    /\ timers["resume"].pending = 1
    /\ timers["resume"].held
    /\ timers["iconFeedback"].pending = 2

\* C20: of each source of hide timers (the pause icon's feedback after a
\* click, its fade on mouse leave, the slider tooltip's hide on release) at
\* most one timer is pending at any time.
C20_OneHideTimerEach ==
    \A s \in {"iconFeedback", "iconFade", "sliderTooltip"} : timers[s].pending <= 1

\* C21: a click on the wrap while AutoScroll is true sets it false and
\* schedules a resume; a click while it is false sets it true and leaves no
\* resume timer pending; and after a pausing click AutoScroll becomes true
\* again (the timer fires) unless the user acts first.
C21_ClickToggle ==
    /\ [][ lastOp' = "wrapClick" =>
               /\ autoScroll' = ~autoScroll
               /\ timers'["resume"].pending = (IF autoScroll THEN 1 ELSE 0)
               /\ timers'["resume"].held = autoScroll ]_vars
    /\ ((hist = "wrapClick" /\ ~autoScroll) ~> (autoScroll \/ hist # "wrapClick"))

\* the timer of a pausing click has fired and switched auto-scroll on again,
\* the user not having acted in between
C21_Witness ==
    /\ lastOp = "resume"
    /\ hist = "wrapClick"
    /\ autoScroll
    /\ timers["resume"].pending = 0

\* C22: setAutoScroll(enabled) sets the flag to the boolean value of its
\* argument (true for true and for a non-empty string, false for false and
\* undefined) and leaves the position, Stopped/Running, the scheduled ticks,
\* the offsets, originalCount and halfTrackHeight as they were.
C22_FlagOnly ==
    [][ lastOp' = "setAutoScroll" =>
            /\ autoScroll' = (JsArgs[arg'] \in {"true", "'off'"})
            /\ UNCHANGED <<posY, running, pendingAnimate, frameLeft, offsets,
                           originalCount, halfTrackHeight, transform, timers>> ]_vars

C22_Witness ==
    /\ lastOp = "setAutoScroll"
    /\ JsArgs[arg] = "'off'"
    /\ autoScroll
    /\ running
    /\ pendingAnimate > 0
    /\ posY < 0

\* C23: nearestCardIndex returns, for any position and non-empty offsets, an
\* index whose offset is nearest to abs(position), the lowest such index when
\* several are equally near, and changes nothing else; for the offsets
\* 0, 50, 140, 300 px and the position -145 px it returns 2.
C23_NearestIndex ==
    [][ (lastOp' = "nearestCardIndex" /\ Len(offsets) > 0) =>
            /\ ret' \in 0..(Len(offsets) - 1)
            /\ \A j \in 1..Len(offsets) :
                   /\ Abs(Abs(posY) - offsets[ret' + 1]) <= Abs(Abs(posY) - offsets[j])
                   /\ j < ret' + 1 =>
                          Abs(Abs(posY) - offsets[ret' + 1]) < Abs(Abs(posY) - offsets[j])
            /\ (offsets = <<0, 200, 560, 1200>> /\ posY = -580) => ret' = 2
            /\ UNCHANGED <<track, loaded, engineVars, arrowSpeed, frameLeft, arg, value,
                           uiVars>> ]_vars

C23_Witness ==
    /\ lastOp = "nearestCardIndex"
    /\ offsets = <<0, 200, 560, 1200>>
    /\ posY = -580
    /\ ret = 2

\* C24: posYForIndex(i) returns the negated offset of the card i clamped into
\* the valid indices (the first card for an index below 0, the last for one
\* past the end) and changes no field of the engine; jumpToIndex moves to the
\* offset of the index clamped the same way.
C24_ClampedIndex ==
    [][ LET c == IF arg' < 0 THEN 1
                 ELSE IF arg' > Len(offsets) - 1 THEN Len(offsets)
                 ELSE arg' + 1
        IN  /\ (lastOp' = "posYForIndex" /\ Len(offsets) > 0) =>
                    /\ ret' = -offsets[c]
                    /\ UNCHANGED <<track, loaded, engineVars, arrowSpeed, frameLeft, value,
                                   uiVars>>
            /\ (lastOp' = "jumpToIndex" /\ Len(offsets) > 0) =>
                    /\ posY' = -offsets[c]
                    /\ transform' = -offsets[c]
                    /\ UNCHANGED offsets ]_vars

C24_Witness ==
    /\ lastOp = "posYForIndex"
    /\ Len(offsets) >= 2
    /\ arg > Len(offsets) - 1
    /\ ret = -offsets[Len(offsets)]
    /\ ret < 0
    /\ posY # ret

\* the fraction the position-to-fraction mapping has returned is the number q
fractionIs(q) == value[2] > 0 /\ value[1] = q * value[2]

\* C25 as stated: the fraction lies in [0, N-1]; a distance at or below
\* offsets[0] gives 0, a distance at or above offsets[N-1] gives N-1, and a
\* distance between two neighbours a <= d <= b, a < b, at i and i+1 gives
\* i + (d-a)/(b-a).
C25_AsStated ==
    (lastOp = "fractionalIndex" /\ Len(offsets) > 0) =>
        LET d == Abs(posY)
            N == Len(offsets)
        IN  /\ value[2] > 0
            /\ 0 <= value[1] /\ value[1] <= (N - 1) * value[2]
            /\ d <= offsets[1] => fractionIs(0)
            /\ d >= offsets[N] => fractionIs(N - 1)
            /\ \A i \in 1..(N - 1) :
                   (offsets[i] <= d /\ d <= offsets[i + 1] /\ offsets[i] < offsets[i + 1]) =>
                       value[1] * (offsets[i + 1] - offsets[i])
                           = ((i - 1) * (offsets[i + 1] - offsets[i]) + (d - offsets[i])) * value[2]

\* C25: the fraction lies in [0, N-1], by the first of these that applies: a
\* distance at or below offsets[0] gives 0; a distance at or above
\* offsets[N-1] gives N-1; the first pair of neighbours a <= d <= b, at i and
\* i+1, has a < b and gives i + (d-a)/(b-a).
C25_Fraction ==
    (lastOp = "fractionalIndex" /\ Len(offsets) > 0) =>
        LET d == Abs(posY)
            N == Len(offsets)
            brackets(i) == offsets[i] <= d /\ d <= offsets[i + 1]
        IN  /\ value[2] > 0
            /\ 0 <= value[1] /\ value[1] <= (N - 1) * value[2]
            /\ d <= offsets[1] => fractionIs(0)
            /\ (d > offsets[1] /\ d >= offsets[N]) => fractionIs(N - 1)
            /\ (d > offsets[1] /\ d < offsets[N]) =>
                   \E i \in 1..(N - 1) :
                       /\ brackets(i)
                       /\ \A j \in 1..(i - 1) : ~brackets(j)
                       /\ offsets[i] < offsets[i + 1]
                       /\ value[1] * (offsets[i + 1] - offsets[i])
                              = ((i - 1) * (offsets[i + 1] - offsets[i]) + (d - offsets[i])) * value[2]

\* a distance inside the second interval, not at a card
C25_Witness ==
    /\ lastOp = "fractionalIndex"
    /\ Len(offsets) = 3
    /\ value[2] > 1
    /\ value[1] > value[2]
    /\ value[1] % value[2] # 0

\* C26: for a position whose distance p lies strictly between offsets[0] and
\* offsets[last], the fractional index of p converted back with the slider's
\* interpolation is p again.
C26_RoundTrip ==
    (/\ lastOp = "interpolate"
     /\ offsets[1] < Abs(posY)
     /\ Abs(posY) < offsets[Len(offsets)]) =>
        /\ value[2] > 0
        /\ value[1] = Abs(posY) * value[2]

\* the round trip through a fraction that is not a whole index
C26_Witness ==
    /\ lastOp = "interpolate"
    /\ Len(offsets) = 3
    /\ offsets[2] < Abs(posY)
    /\ Abs(posY) < offsets[3]
    /\ value[2] > 1
    /\ value[1] = Abs(posY) * value[2]

\* C27: with no card or a single card every result is the neutral one: the
\* nearest index is 0, posYForIndex is 0, the fractional index is 0,
\* jumpToIndex changes nothing with no card and moves to 0 with one, and the
\* slider value derived from the index is a defined number.
C27_DegenerateNeutral ==
    [][ Len(offsets) <= 1 =>
            /\ lastOp' = "nearestCardIndex" => ret' = 0
            /\ lastOp' = "posYForIndex" => ret' = 0
            /\ lastOp' = "fractionalIndex" => value' = <<0, 1>>
            /\ lastOp' = "jumpToIndex" =>
                   posY' = (IF Len(offsets) = 0 THEN posY ELSE 0)
            /\ lastOp' = "syncSlider" => value'[2] > 0 ]_vars

\* C28: computeOffsetsNow on a track that holds cards leaves offsets[i] =
\* top[i] - top[0] for every card measured, so the first offset is 0 and the
\* offsets never decrease, whatever the position, which the call leaves alone.
C28_OffsetsFromTops ==
    [][ (lastOp' = "computeOffsetsNow" /\ Len(track) > 0) =>
            /\ Len(offsets') >= 1
            /\ offsets'[1] = 0
            /\ \A i \in 1..Len(offsets') :
                   offsets'[i] = offsetTop(track, loaded, i) - offsetTop(track, loaded, 1)
            /\ \A i \in 1..(Len(offsets') - 1) : offsets'[i] <= offsets'[i + 1]
            /\ UNCHANGED <<posY, transform>> ]_vars

\* the offsets of two cards measured with the track scrolled away from 0
C28_Witness ==
    /\ lastOp = "computeOffsetsNow"
    /\ posY < 0
    /\ Len(offsets) = 2
    /\ offsets[1] = 0
    /\ offsets[2] > 0

\* C29: computeOffsetsNow measures the first originalCount cards of the track
\* as it is now, and every card of it when originalCount is 0 (unset), so
\* that the table then has one entry per card; on an empty track it leaves an
\* empty table.
C29_FirstCount ==
    [][ lastOp' = "computeOffsetsNow" =>
            /\ Len(offsets') = (IF originalCount # 0 /\ Len(track) > 0
                                THEN originalCount ELSE Len(track))
            /\ \A i \in 1..Len(offsets') :
                   offsets'[i] = offsetTop(track, loaded, i) - offsetTop(track, loaded, 1) ]_vars

\* a doubled track measured with originalCount never set
C29_Witness ==
    /\ lastOp = "computeOffsetsNow"
    /\ originalCount = 0
    /\ Len(track) = 4
    /\ Len(offsets) = 4
    /\ offsets[4] > offsets[2]

\* C30: while halfTrackHeight is 0 the wrap is disabled: a tick moves the
\* position by the advance only, jumpToIndex moves it to the negated offset of
\* the clamped index, and no normalisation loop runs forever.
C30_ZeroHalfNoWrap ==
    [][ (halfTrackHeight = 0 /\ halfTrackHeight' = 0) =>
            LET c == IF arg' < 0 THEN 1
                     ELSE IF arg' > Len(offsets) - 1 THEN Len(offsets)
                     ELSE arg' + 1
            IN  /\ lastOp' = "animate" =>
                       posY' = (IF running /\ autoScroll THEN posY - BASE_SPEED ELSE posY)
                /\ lastOp' = "masterAnimate" =>
                       posY' = (IF arrowSpeed # 0 THEN posY + arrowSpeed
                                ELSE IF autoScroll THEN posY - BASE_SPEED ELSE posY)
                /\ (lastOp' = "jumpToIndex" /\ Len(offsets) > 0) => posY' = -offsets[c]
                /\ lastOp' # "navClickLoop" ]_vars

\* C31: when the wrap or the track is absent, the DOMContentLoaded handler
\* reports and returns: no engine, no duplicated card, no listener, no tick,
\* no timer and no global exist then or later; an engine is set up only on a
\* page that has both elements.
C31_RefusesToInitialize ==
    /\ [][ /\ (~page.wrap \/ ~page.track) =>
                  /\ lastOp' = "refused"
                  /\ page'.warned
                  /\ ~page'.engine /\ ~page'.listeners /\ ~page'.exposed
                  /\ UNCHANGED <<track, loaded, engineVars, arrowSpeed, frameLeft, uiVars>>
           /\ lastOp = "refused" => FALSE ]_vars
    /\ [](lastOp = "refused" =>
              /\ pendingAnimate = 0
              /\ ~running
              /\ \A s \in TimerSources : timers[s].pending = 0)

\* the handler has refused a page that has the wrap but no track
C31_Witness ==
    /\ lastOp = "refused"
    /\ page.wrap
    /\ ~page.track
    /\ page.warned
    /\ ~page.engine

\* C32: with halfTrackHeight 420 px, the base speed of 0.75 px and auto-scroll
\* on, the n-th tick from position 0 leaves the position at -0.75 * (n mod 560)
\* px: -419.25 px after tick 559, and 0 after tick 560, where the raw value
\* -420 px is at the inclusive boundary and is folded by +420 px.
C32_Lap560 ==
    [][ lastOp' = "animate" =>
            /\ halfTrackHeight = 4 * 420
            /\ autoScroll
            /\ posY' = -BASE_SPEED * ((((-posY) \div BASE_SPEED) + 1) % 560)
            /\ posY = -(4 * 419 + 1) - BASE_SPEED => posY' = -(4 * 419 + 1)
            /\ posY = -(4 * 419 + 1) => posY' = 0 ]_vars

\* the engine's tick 560: back at 0
C32_Witness ==
    /\ lastOp = "animate"
    /\ halfTrackHeight = 4 * 420
    /\ posY = 0
    /\ transform = 0
    /\ running

\* C33: whatever the order of start(), stop() and frames, at most one _animate
\* callback is registered or waiting to run in the current frame, so that the
\* position advances by the base speed at most once per frame.
C33_OneTickChain == pendingAnimate + frameLeft <= 1

\* C34: the resume timer of a pausing click does not turn auto-scroll on once
\* a later interaction (a drag of the slider) has taken over: when it fires
\* after one, auto-scroll stays off.
C34_ResumeYieldsToLaterInput ==
    [][ (lastOp' = "resume" /\ hist # "wrapClick") => ~autoScroll' ]_vars

\* ------------------------------------------------- layout changes and ticks
\* the running timeline while the layout changes under it: an image loads, a
\* card is taken out of the track, the resize listener measures again
NextResize ==
    \/ ImageLoad
    \/ RemoveCard
    \/ ComputeOffsetsNow
    \/ ControlsTick
    \/ Animate

SpecResize == InitTicks /\ [][NextResize]_vars

\* C35: when computeOffsetsNow has changed halfTrackHeight while the position
\* was inside the old wrap interval, the first tick of the running engine
\* after it leaves the position inside the new interval (-halfTrackHeight, 0].
C35_BackInsideAfterOneTick ==
    [][ (hist = "resized" /\ lastOp' = "animate" /\ running /\ halfTrackHeight > 0)
            => (-halfTrackHeight < posY' /\ posY' <= 0) ]_vars

\* ------------------------------------------------ master.js: the two flags
\* master.js under everything that writes autoScroll or userPaused: hover,
\* clicks on the wrap, the slider, link jumps and their timers
NextFlags ==
    \/ MasterFrame
    \/ MasterSettle
    \/ MasterMouseEnter
    \/ MasterMouseLeave
    \/ MasterWrapClick
    \/ MasterSliderInput
    \/ MasterNavClick
    \/ MasterPosWrite
    \/ MasterResume

SpecFlags == InitNav /\ [][NextFlags]_vars

\* C36: in master.js the auto-scroll flag is true only while the user-paused
\* flag is false, whatever hover, click, slider, link and timer events came.
C36_AutoImpliesNotPaused == (page.script = "master" /\ autoScroll) => ~userPaused

\* the pointer leaves the wrap of a timeline the user has paused: it stays paused
C36_Witness ==
    /\ page.script = "master"
    /\ lastOp = "mouseleave"
    /\ userPaused
    /\ ~autoScroll

\* ------------------------------------------------------ the slider's snap
\* both variants of the page with the slider dragged and released while the
\* timeline scrolls and the arrows are used
InitSnap == \E doc \in TimelineDocs : Bootstrapped(doc) \/ MasterLoaded(doc)

NextSnap ==
    \/ SliderInput
    \/ SliderChange
    \/ MasterSliderInput
    \/ MasterSliderChange
    \/ ArrowPress
    \/ ArrowRelease
    \/ ControlsTick
    \/ Animate
    \/ MasterFrame
    \/ MasterSettle

SpecSnap == InitSnap /\ [][NextSnap]_vars

\* C37: releasing the slider snaps to the nearest card n: the magnitude of the
\* position is then offsets[n], the nearest card is still n, and snapping a
\* second time would assign the position it already has.
C37_SnapIdempotent ==
    [][ (lastOp' = "sliderChange" /\ Len(offsets) > 0) =>
            LET n == nearestCardIndex(offsets, posY)
                again == nearestCardIndex(offsets, posY')
            IN  /\ Abs(posY') = offsets[n + 1]
                /\ again = n
                /\ posY' = (IF page.script = "master"
                            THEN posYForIndex(offsets, again)
                            ELSE jumpTarget(offsets, halfTrackHeight, again)) ]_vars

\* a release has snapped the timeline to its second card, below the top
C37_Witness ==
    /\ lastOp = "sliderChange"
    /\ Len(offsets) >= 2
    /\ offsets[2] > 0
    /\ posY = -offsets[2]

\* ------------------------------------------------ the timeline left alone
\* tracks of 10, 25, 35 and 420 px per copy, scrolling by themselves in
\* either variant of the page: frames and master.js's settling timer only
CruiseDocs == {<<"a">>, <<"a", "b">>, <<"b", "c">>, <<"w">>}

InitCruise == \E doc \in CruiseDocs : Bootstrapped(doc) \/ MasterLoaded(doc)

NextCruise ==
    \/ ControlsTick
    \/ Animate
    \/ MasterFrame
    \/ MasterSettle

SpecCruise == InitCruise /\ [][NextCruise]_vars

\* the browser keeps delivering animation frames to the visible page
SpecCruiseFair ==
    InitCruise /\ [][NextCruise]_vars /\ WF_vars(ControlsTick) /\ WF_vars(Animate)
        /\ WF_vars(MasterFrame)

\* C38: a running, auto-scrolling timeline that is left alone wraps again and
\* again: the position keeps being folded back, is within one base-speed step
\* of 0 infinitely often, and never leaves the wrap interval.
C38_WrapsForever ==
    /\ []<>(halfTrackHeight > 0 /\ -BASE_SPEED < posY /\ posY <= 0)
    /\ []<><<posY' > posY>>_vars
    /\ [](halfTrackHeight > 0 => (-halfTrackHeight < posY /\ posY <= 0))

\* a tick has folded the position of the 10 px track from -10.5 px to -0.5 px
C38_Witness ==
    /\ lastOp \in {"animate", "masterAnimate"}
    /\ running
    /\ autoScroll
    /\ halfTrackHeight = 4 * 10
    /\ posY = -2
    /\ transform = -2

\* ------------------------------------------- the two duplication variants
\* either page from its loading on, with cards taken out of the track and the
\* exposed recompute called again and again
PairDocs == {<< >>, <<"a">>, <<"a", "b">>, <<"a", "a">>}

InitPair == \E doc \in PairDocs, script \in {"bootstrap", "master"} :
                Loading(doc, script, TRUE, TRUE)

NextPair ==
    \/ DomContentLoaded
    \/ MasterDomContentLoaded
    \/ RemoveCard
    \/ SbtlRecompute
    \/ MasterRecompute
    \/ MasterFrame

SpecPair == InitPair /\ [][NextPair]_vars

C40_NoZeroDivide ==
    lastOp = "fractionalIndex" =>
        /\ value[2] > 0
        /\ (Len(offsets) > 0 /\ offsets[1] < Abs(posY) /\ Abs(posY) < offsets[Len(offsets)]) =>
               \E i \in 1..(Len(offsets) - 1) :
                   /\ offsets[i] < offsets[i + 1]
                   /\ offsets[i] <= Abs(posY)
                   /\ Abs(posY) <= offsets[i + 1]
                   /\ value[2] = offsets[i + 1] - offsets[i]

\* the quotient was computed on a table whose first two offsets are equal,
\* for a distance between them and the third
C40_Witness ==
    /\ lastOp = "fractionalIndex"
    /\ Len(offsets) = 3
    /\ offsets[1] = offsets[2]
    /\ offsets[2] < offsets[3]
    /\ Abs(posY) > offsets[1]
    /\ Abs(posY) < offsets[3]
    /\ value[2] = offsets[3] - offsets[2]

====
